---- MODULE Spec2Model ----
(***************************************************************************)
(* Model of the serving core of the UA parking survey dashboard:           *)
(*   - the evidence endpoint (GET /api/evidence): loadThemes with its      *)
(*     mtime-invalidated module cache, searchQuotes, theme lookup and      *)
(*     theme listing;                                                      *)
(*   - the chat endpoint (POST /api/chat): loadThemesData, scoreDocument,  *)
(*     findRelevantDocs, buildContext and the provider call.               *)
(*                                                                         *)
(* Strings are sequences of one-character strings, so that toLowerCase,    *)
(* includes, split and the word-boundary scan are computed as the code     *)
(* computes them.  Scores are kept in half units (Half per point), since   *)
(* the chat scorer adds 0.5 per word-boundary occurrence.                  *)
(***************************************************************************)
EXTENDS Integers, Sequences, FiniteSets, TLC

VARIABLES
    \* ---- the artifact artifacts/themes.json (the environment) ----
    fileContent,         \* what the file holds: text that is not JSON, or a ThemesData
    fileState,           \* "ok" | "missing" | "unreadable"
    fileMtime,           \* stat.mtimeMs of the file
    \* ---- evidence route module state ----
    cachedThemes,        \* null or a parsed snapshot (an object with identity)
    themesLastModified,  \* mtime recorded with the snapshot
    req,                 \* the GET requests, each with its position
    answered,            \* the answer GET sent in the last step, with what it was for
    \* ---- chat route module state ----
    themesData,          \* null or the ThemesData loaded by the chat route
    apiKey,              \* whether GEMINI_API_KEY is set
    chat,                \* the POST requests, each with its position
    replied,             \* the answer POST sent in the last step, with what it was for
    \* ---- ranking harness (pure functions applied to drawn inputs) ----
    rankThemes, rankQuery, rankOut,
    \* ---- browser: the chat client and the evidence page ----
    client,              \* state of ChatInterface and its sendMessage calls
    page                 \* state of EvidencePage and its loadThemes effect

vars == <<fileContent, fileState, fileMtime, cachedThemes,
          themesLastModified, req, answered, themesData, apiKey, chat, replied,
          rankThemes, rankQuery, rankOut, client, page>>

fileVars == <<fileContent, fileState, fileMtime>>
evidenceVars == <<cachedThemes, themesLastModified, req>>
chatVars == <<themesData, apiKey, chat>>
rankVars == <<rankThemes, rankQuery, rankOut>>
uiVars == <<client, page>>

\* null, as the value of a variable that holds an object or null
NullRef == [kind |-> "null"]

\* searchParams.get(name): null when the parameter is absent
NoParam == [present |-> FALSE, value |-> <<>>]
Param(v) == [present |-> TRUE, value |-> v]

\* Placeholders of a request that has not loaded or answered yet
NotLoaded == [raised |-> FALSE, data |-> NullRef]
NoResponse == [status |-> 0]

\* The value of answered after a step that sends no answer
NoAnswer == [r |-> 0, params |-> [theme |-> NoParam, search |-> NoParam],
             loaded |-> NotLoaded, response |-> NoResponse]
Silent == answered' = NoAnswer

\* The value of replied after a step in which POST sends no answer
NoBody == [json |-> FALSE, message |-> [type |-> "undefined", str |-> <<>>, num |-> 0]]
NoReply == [c |-> 0, body |-> NoBody, calls |-> <<>>, docs |-> <<>>, context |-> <<>>,
            response |-> NoResponse]
StillNoReply == replied' = NoReply

----------------------------------------------------------------------------
(* Program constants *)

\* score += 10 for a full query match
FullMatchBonus == 10
\* score += 1 for each term found as a substring
TermBonus == 1
\* 0.5 per word-boundary match: one half unit, Half half units per point
Half == 2
\* scoreDocument(theme.label, query) * 2
LabelWeight == 2
\* results.slice(0, 20)
SearchTopK == 20
\* findRelevantDocs(message, themes, 5)
ChatTopK == 5
\* t.quotes.slice(0, 2)
PreviewCount == 2
\* filter(t => t.length > 2)
MinTermLen == 2
\* d.text.slice(0, 200) + (d.text.length > 200 ? '...' : '')
SourceTextMax == 200

----------------------------------------------------------------------------
(* Strings *)

UpperAlpha == <<"A","B","C","D","E","F","G","H","I","J","K","L","M",
                "N","O","P","Q","R","S","T","U","V","W","X","Y","Z">>
LowerAlpha == <<"a","b","c","d","e","f","g","h","i","j","k","l","m",
                "n","o","p","q","r","s","t","u","v","w","x","y","z">>
Digits == {"0","1","2","3","4","5","6","7","8","9"}

\* The character U+0131 (LATIN SMALL LETTER DOTLESS I), named because the
\* module text is ASCII.  It is a lowercase letter: toLowerCase leaves it.
DotlessI == "U+0131"

Range(f) == {f[i] : i \in DOMAIN f}

\* String.prototype.toLowerCase on one character
ToLowerChar(c) ==
    IF \E i \in DOMAIN UpperAlpha : UpperAlpha[i] = c
    THEN LowerAlpha[CHOOSE i \in DOMAIN UpperAlpha : UpperAlpha[i] = c]
    ELSE c

toLowerCase(s) == [i \in 1..Len(s) |-> ToLowerChar(s[i])]

\* \s of a regular expression, over the characters the model uses
IsSpace(c) == c \in {" ", "\t", "\n"}

\* \w of a regular expression
IsWordChar(c) == c \in Range(UpperAlpha) \cup Range(LowerAlpha) \cup Digits \cup {"_"}

\* text.slice(p - 1, p - 1 + n) = sub, p counted from 1
MatchAt(text, sub, p) ==
    /\ p + Len(sub) - 1 <= Len(text)
    /\ SubSeq(text, p, p + Len(sub) - 1) = sub

\* String.prototype.includes
includes(text, sub) == \E p \in 1..(Len(text) + 1) : MatchAt(text, sub, p)

\* Index of the first whitespace character at or after p, 0 if none
RECURSIVE FirstSpace(_, _)
FirstSpace(s, p) ==
    IF p > Len(s) THEN 0
    ELSE IF IsSpace(s[p]) THEN p
    ELSE FirstSpace(s, p + 1)

\* Index of the first non-whitespace character at or after p, Len(s)+1 if none
RECURSIVE SkipSpace(_, _)
SkipSpace(s, p) ==
    IF p > Len(s) THEN Len(s) + 1
    ELSE IF IsSpace(s[p]) THEN SkipSpace(s, p + 1)
    ELSE p

\* String.prototype.split(/\s+/): the pieces between maximal whitespace runs,
\* an empty piece before a leading run and after a trailing one
RECURSIVE split(_)
split(s) ==
    LET f == FirstSpace(s, 1) IN
    IF f = 0 THEN <<s>>
    ELSE <<SubSeq(s, 1, f - 1)>> \o split(SubSeq(s, SkipSpace(s, f), Len(s)))

\* Variant of LongTerm that keeps every term that is not empty
NonEmptyTerm(t) == Len(t) > 0

\* query.toLowerCase().split(/\s+/).filter(t => t.length > 2)
LongTerm(t) == Len(t) > MinTermLen

\* Variant of queryTerms that keeps the case of the query
queryTermsAsTyped(query) == SelectSeq(split(query), LongTerm)

queryTerms(query) == SelectSeq(split(toLowerCase(query)), LongTerm)

\* \b at the position before index p (p counted from 1)
IsWordAt(text, p) == p >= 1 /\ p <= Len(text) /\ IsWordChar(text[p])
Boundary(text, p) == IsWordAt(text, p - 1) # IsWordAt(text, p)

\* textLower.match(new RegExp(`\\b${word}\\b`, 'gi')) for a word that is a
\* literal pattern: the number of matches of the global scan from position p
\* The scan goes from p to the leftmost position at or after p where word
\* stands between two boundaries, and on from the end of that match
WordMatchesFrom(text, word, p) ==
    {q \in p..(Len(text) - Len(word) + 1) :
        /\ MatchAt(text, word, q)
        /\ Boundary(text, q)
        /\ Boundary(text, q + Len(word))}

RECURSIVE CountWordMatches(_, _, _)
CountWordMatches(text, word, p) ==
    LET found == WordMatchesFrom(text, word, p) IN
    IF found = {} THEN 0
    ELSE LET q == CHOOSE q \in found : \A other \in found : q <= other
         IN  1 + CountWordMatches(text, word, q + Len(word))

\* Characters of the model that are syntax in a regular expression: an
\* opening parenthesis with no closing one is "Unterminated group"
RegExpSyntaxChars == {"("}

\* new RegExp(`\\b${word}\\b`, 'gi') constructs without a SyntaxError
RegExpValid(word) == \A i \in 1..Len(word) : word[i] \notin RegExpSyntaxChars

----------------------------------------------------------------------------
(* Sums and sorting *)

RECURSIVE SumSeq(_)
SumSeq(s) == IF s = <<>> THEN 0 ELSE Head(s) + SumSeq(Tail(s))

\* Variant of InsertByScore that puts x before the elements of its score
RECURSIVE InsertBeforeTies(_, _)
InsertBeforeTies(sorted, x) ==
    IF sorted = <<>> THEN <<x>>
    ELSE IF Head(sorted).score > x.score
         THEN <<Head(sorted)>> \o InsertBeforeTies(Tail(sorted), x)
         ELSE <<x>> \o sorted

\* Array.prototype.sort((a, b) => b.score - a.score): stable, descending.
\* InsertByScore puts x after every element whose score is >= x.score.
RECURSIVE InsertByScore(_, _)
InsertByScore(sorted, x) ==
    IF sorted = <<>> THEN <<x>>
    ELSE IF Head(sorted).score >= x.score
         THEN <<Head(sorted)>> \o InsertByScore(Tail(sorted), x)
         ELSE <<x>> \o sorted

RECURSIVE sortByScore(_)
\* Variant of sortByScore that leaves the order of insertion
keepOrder(s) == s

sortByScore(s) ==
    IF s = <<>> THEN <<>>
    ELSE InsertByScore(sortByScore(SubSeq(s, 1, Len(s) - 1)), s[Len(s)])

\* Array.prototype.slice(0, k)
slice(s, k) == SubSeq(s, 1, IF Len(s) < k THEN Len(s) ELSE k)


----------------------------------------------------------------------------
(* Relevance scoring and ranking *)

\* Variant of searchTermScore that adds half a point for every occurrence of
\* the term as a whole word
searchTermScoreWithWordBonus(quoteLower, term) ==
    IF includes(quoteLower, term)
    THEN TermBonus * Half + CountWordMatches(quoteLower, term, 1)
    ELSE 0

\* The score searchQuotes gives one quote, in half units: queryLower and
\* terms are computed once per search
searchTermScore(quoteLower, term) ==
    IF includes(quoteLower, term) THEN TermBonus * Half ELSE 0

\* Variant of searchScoreOf without the full-match bonus
searchScoreOfTermsOnly(quoteLower, queryLower, terms) ==
    SumSeq([k \in 1..Len(terms) |-> searchTermScore(quoteLower, terms[k])])

searchScoreOf(quoteLower, queryLower, terms) ==
    (IF includes(quoteLower, queryLower) THEN FullMatchBonus * Half ELSE 0)
    + SumSeq([k \in 1..Len(terms) |-> searchTermScore(quoteLower, terms[k])])

searchScore(quote, query) ==
    searchScoreOf(toLowerCase(quote), toLowerCase(query), queryTerms(query))

\* Variant of the relevance gate that lets a score of 0 through
NonNegativeScore(r) == r.score >= 0

\* if (score > 0) results.push(...)
PositiveScore(r) == r.score > 0

\* The inner loop of searchQuotes over one theme, before the score test
scoredQuotes(theme, queryLower, terms) ==
    [i \in 1..Len(theme.quotes) |->
        [quote   |-> theme.quotes[i],
         theme   |-> theme.label,
         themeId |-> theme.id,
         score   |-> searchScoreOf(toLowerCase(theme.quotes[i]), queryLower, terms)]]

\* The outer loop: the quotes of all themes, in theme order then quote order
RECURSIVE allScored(_, _, _)
allScored(themes, queryLower, terms) ==
    IF themes = <<>> THEN <<>>
    ELSE scoredQuotes(Head(themes), queryLower, terms)
         \o allScored(Tail(themes), queryLower, terms)

searchQuotes(themes, query) ==
    slice(sortByScore(SelectSeq(allScored(themes, toLowerCase(query), queryTerms(query)),
                                PositiveScore)),
          SearchTopK)

\* Variant of themesAfterSearch: the quotes of each theme sorted in place
themesAfterSortingQuotes(themes, query) ==
    [t \in 1..Len(themes) |->
        [themes[t] EXCEPT
            !.quotes =
                LET ranked == sortByScore(scoredQuotes(themes[t], toLowerCase(query),
                                                       queryTerms(query)))
                IN  [i \in 1..Len(ranked) |-> ranked[i].quote]]]

\* The themes array after searchQuotes ran on it.  The function reads themes
\* and theme.quotes with for-of; what it writes (push, sort) is `results`,
\* an array it creates itself; slice returns a copy.
themesAfterSearch(themes, query) == themes

\* Variant of wordScore that takes a point off for a word the text lacks
wordScoreWithPenalty(textLower, word) ==
    IF includes(textLower, word)
    THEN TermBonus * Half + CountWordMatches(textLower, word, 1)
    ELSE 0 - TermBonus * Half

\* scoreDocument: the contribution of one query word, in half units
wordScore(textLower, word) ==
    IF includes(textLower, word)
    THEN TermBonus * Half + CountWordMatches(textLower, word, 1)
    ELSE 0

\* scoreDocument raises when it builds a RegExp from a word that is not a
\* valid pattern; it builds one only for a word the text includes
scoreDocumentThrows(text, query) ==
    LET textLower == toLowerCase(text)
        queryWords == queryTerms(query)
    IN  \E k \in 1..Len(queryWords) :
            includes(textLower, queryWords[k]) /\ ~RegExpValid(queryWords[k])

\* Variant of scoreDocument that starts from the full-match bonus
scoreDocumentWithFullMatch(text, query) ==
    LET textLower == toLowerCase(text)
        queryWords == queryTerms(query)
    IN  (IF includes(textLower, toLowerCase(query)) THEN FullMatchBonus * Half ELSE 0)
        + SumSeq([k \in 1..Len(queryWords) |-> wordScore(textLower, queryWords[k])])

scoreDocument(text, query) ==
    LET textLower == toLowerCase(text)
        queryWords == queryTerms(query)
    IN  SumSeq([k \in 1..Len(queryWords) |-> wordScore(textLower, queryWords[k])])

\* Object.keys(x)[0] || 'Unknown'
firstKey(keys) == IF keys = <<>> THEN "Unknown" ELSE Head(keys)

\* Variant of docsOfTheme that leaves the label out of the score
docsOfThemeByQuoteOnly(theme, query) ==
    [i \in 1..Len(theme.quotes) |->
        [id           |-> <<theme.id, i - 1>>,
         text         |-> theme.quotes[i],
         source       |-> theme.label,
         arrival_time |-> firstKey(theme.segments.by_arrival_time),
         mode         |-> firstKey(theme.segments.by_mode),
         score        |-> scoreDocument(theme.quotes[i], query)]]

\* The inner loop of findRelevantDocs over one theme: its elements of allDocs
docsOfTheme(theme, query) ==
    [i \in 1..Len(theme.quotes) |->
        [id           |-> <<theme.id, i - 1>>,
         text         |-> theme.quotes[i],
         source       |-> theme.label,
         arrival_time |-> firstKey(theme.segments.by_arrival_time),
         mode         |-> firstKey(theme.segments.by_mode),
         score        |-> scoreDocument(theme.quotes[i], query)
                          + scoreDocument(theme.label, query) * LabelWeight]]

RECURSIVE allDocs(_, _)
allDocs(themes, query) ==
    IF themes = <<>> THEN <<>>
    ELSE docsOfTheme(Head(themes), query) \o allDocs(Tail(themes), query)

\* Some scoreDocument call of the loops raises: one on a quote, or one on the
\* label of a theme that has a quote
RECURSIVE scoringThrows(_, _)
scoringThrows(themes, query) ==
    /\ themes # <<>>
    /\ \/ /\ Head(themes).quotes # <<>>
          /\ \/ scoreDocumentThrows(Head(themes).label, query)
             \/ \E i \in 1..Len(Head(themes).quotes) :
                   scoreDocumentThrows(Head(themes).quotes[i], query)
       \/ scoringThrows(Tail(themes), query)

\* The themes array after findRelevantDocs ran on it: the function writes
\* (push, sort) only `allDocs`, an array it creates itself
themesAfterRanking(themes, query) == themes

\* data.themes is defined: the parsed value has a themes key
hasThemes(data) == "themes" \in DOMAIN data

\* findRelevantDocs: threw is TRUE when a scoreDocument call raised
findRelevantDocs(query, themes, topK) ==
    IF ~hasThemes(themes)
    THEN [threw |-> TRUE, docs |-> <<>>]
    ELSE IF scoringThrows(themes.themes, query)
    THEN [threw |-> TRUE, docs |-> <<>>]
    ELSE [threw |-> FALSE, docs |-> slice(sortByScore(allDocs(themes.themes, query)), topK)]

----------------------------------------------------------------------------
(* Bounds and the data the model draws from *)

\* Number of quotes of the large theme (more than SearchTopK)
BigQuotes == 22
\* Longest themes collection drawn for the ranking harness
MaxThemes == 2

sBusIsLate == <<"B","u","s"," ","i","s"," ","l","a","t","e">>
sBusesCost == <<"b","u","s","e","s"," ","c","o","s","t">>
sNoBusStop == <<"n","o"," ","(","b","u","s"," ","s","t","o","p">>
sLot == <<"l","o","t">>
sLotBus == <<"l","o","t",","," ","b","u","s">>
sLabelBus == <<"B","u","s">>
sLabelCost == <<"C","o","s","t">>
sLabelLot == <<"L","o","t">>

Segments1 == [by_arrival_time |-> <<"Before 8am", "8-10am">>, by_mode |-> <<"Car">>]
Segments2 == [by_arrival_time |-> <<>>, by_mode |-> <<"Bus", "Car">>]

Theme1 == [id |-> 1, label |-> sLabelBus, count |-> 2, pct |-> 40,
           quotes |-> <<sBusIsLate, sBusesCost>>, segments |-> Segments1]
Theme2 == [id |-> 2, label |-> sLabelCost, count |-> 3, pct |-> 60,
           quotes |-> <<sBusesCost, sLot, sNoBusStop>>, segments |-> Segments2]
Theme3 == [id |-> 3, label |-> sLabelLot, count |-> 0, pct |-> 0,
           quotes |-> <<>>, segments |-> Segments1]
ThemeBig == [id |-> 4, label |-> sLabelLot, count |-> BigQuotes, pct |-> 100,
             quotes |-> [i \in 1..BigQuotes |->
                            IF i % 3 = 1 THEN sLot
                            ELSE IF i % 3 = 2 THEN sLotBus ELSE sBusIsLate],
             segments |-> Segments2]

ThemePool == {Theme1, Theme2, Theme3, ThemeBig}

\* A theme with a quote one character longer than what a chat source shows,
\* and a quote of exactly that length
sLabelLong == <<"L","o","n","g">>
sLongQuote == <<"b","u","s"," ">> \o [i \in 1..(SourceTextMax - 4) |-> "x"] \o <<"!">>
sExactQuote == <<"l","a","t","e">> \o [i \in 1..(SourceTextMax - 4) |-> "y"]
ThemeLong == [id |-> 5, label |-> sLabelLong, count |-> 2, pct |-> 40,
              quotes |-> <<sLongQuote, sExactQuote>>, segments |-> Segments1]

\* Themes collections: sequences of themes with distinct ids
ThemeCollections ==
    UNION {{s \in [1..n -> ThemePool] :
              \A i, j \in 1..n : i # j => s[i].id # s[j].id} : n \in 0..MaxThemes}

Queries == {<<"b","u","s">>,
            <<"b","u","s"," ","l","o","t">>,
            <<"B","U","S"," ","l","a","t","e">>,
            <<"c","o","s","t">>,
            <<"i","s">>,
            <<>>,
            <<"(">>,
            <<"b","u","s"," ","i","s">>,
            <<"(","b","u","s">>,
            <<"b","u","s"," "," ","c","o","s","t">>,
            <<"z","z","z">>,
            <<"b","u","s"," ","i","s"," ","l","a","t","e">>,
            <<" ","l","o","t">>,
            <<"L","o","t",","," ","B","U","S">>,
            <<DotlessI,"s"," ","l","a","t","e">>}

----------------------------------------------------------------------------
(* The artifact artifacts/themes.json.  The offline pipeline writes it in   *)
(* the themes.json format; a reader may also find it absent, unreadable or  *)
(* cut short (text that does not parse as JSON).                            *)

\* Largest modification time the model lets the artifact reach
MaxMtime == 2
\* Number of GET requests the model runs
MaxRequests == 2

Metadata1 == [generated_at |-> "t1", input_file |-> "survey.csv",
              total_texts |-> 5, n_clusters |-> 2]
Metadata2 == [generated_at |-> "t2", input_file |-> "survey.csv",
              total_texts |-> 5, n_clusters |-> 3]

DataA == [metadata |-> Metadata1, themes |-> <<Theme1, Theme2>>]
DataB == [metadata |-> Metadata2, themes |-> <<Theme2, Theme3, ThemeLong>>]
\* The contents the pipeline writes while the endpoints run
Datasets == {DataA, DataB}

\* A JSON artifact that is not a ThemesData: an object with no themes, as in
\* { "metadata": ... }. JSON.parse accepts it and `as ThemesData` checks nothing.
DataNoThemes == [metadata |-> Metadata1]
ParsedValues == Datasets \cup {DataNoThemes}

Corrupt == [kind |-> "corrupt"]
Json(d) == [kind |-> "json", value |-> d]
FileContents == {Corrupt} \cup {Json(d) : d \in ParsedValues}

\* The pipeline (or an operator) writes the file: new content, later mtime
WriteArtifact(c) ==
    /\ fileMtime < MaxMtime
    /\ fileContent' = c
    /\ fileState' = "ok"
    /\ fileMtime' = fileMtime + 1
    /\ Silent
    /\ StillNoReply
    /\ UNCHANGED <<evidenceVars, chatVars, rankVars, uiVars>>

\* The file is moved away
RemoveArtifact ==
    /\ fileState = "ok"
    /\ fileState' = "missing"
    /\ Silent
    /\ StillNoReply
    /\ UNCHANGED <<fileContent, fileMtime, evidenceVars, chatVars, rankVars, uiVars>>

\* The file is moved back: same content, same mtime
RestoreArtifact ==
    /\ fileState = "missing"
    /\ fileState' = "ok"
    /\ Silent
    /\ StillNoReply
    /\ UNCHANGED <<fileContent, fileMtime, evidenceVars, chatVars, rankVars, uiVars>>

\* The file's permissions are changed: stat succeeds, reading fails (or
\* succeeds again); a permission change does not touch the mtime
ChmodArtifact ==
    /\ fileState \in {"ok", "unreadable"}
    /\ fileState' = IF fileState = "ok" THEN "unreadable" ELSE "ok"
    /\ Silent
    /\ StillNoReply
    /\ UNCHANGED <<fileContent, fileMtime, evidenceVars, chatVars, rankVars, uiVars>>

----------------------------------------------------------------------------
(* Evidence route: loadThemes *)

Reqs == 1..MaxRequests

\* An object created by request r: site is "parsed" (JSON.parse) or "mock"
\* (the literal of the catch block).  Two objects are the same reference
\* exactly when their ids are equal.
Object(r, site, d) == [kind |-> "object", id |-> <<r, site>>, data |-> d]

MockData == [metadata |-> [generated_at |-> "now", input_file |-> "mock",
                           total_texts |-> 0, n_clusters |-> 0],
             themes |-> <<>>]

\* What an async load hands to its caller
Returned(obj) == [raised |-> FALSE, data |-> obj]
Raised == [raised |-> TRUE, data |-> NullRef]

\* Variant of the catch block that rethrows
loadThemesRethrows(r) == Raised

\* Variant of the catch block that serves the cached snapshot when there is
\* one
loadThemesServesStale(r) ==
    IF cachedThemes # NullRef THEN Returned(cachedThemes)
    ELSE Returned(Object(r, "mock", MockData))

\* catch (error) { return { metadata: {...}, themes: [] } }
loadThemesCatch(r) == Returned(Object(r, "mock", MockData))

\* Variant of the cache test that ignores the mtime
cacheIsSet(cache, lastModified, mtime) == cache # NullRef

\* if (cachedThemes && mtime === themesLastModified)
cacheIsFresh(cache, lastModified, mtime) ==
    cache # NullRef /\ mtime = lastModified

\* JSON.parse(content) does not raise
parses(content) == content.kind = "json"

\* What fs.readFile delivered: nothing yet, the content, or an error
NoBuf == [state |-> "none", content |-> Corrupt]
ReadError == [state |-> "error", content |-> Corrupt]
ReadData(c) == [state |-> "data", content |-> c]

\* The module variables as the cache test of a call saw them
NotSeen == [cache |-> NullRef, lastModified |-> 0]

\* A request before it is made.  mtime is the stat result (0: none), seen the
\* module variables the cache test compared it with, hit whether that test
\* succeeded, buf what fs.readFile delivered, loaded what loadThemes returned.
IdleReq == [pc |-> "idle", mtime |-> 0, seen |-> NotSeen, hit |-> FALSE,
            buf |-> NoBuf, loaded |-> NotLoaded]

\* GET is called: the URL is parsed and loadThemes runs up to
\* "await import('fs')".  The two query parameters are read here and used
\* only after the load; the model draws them where they are used.
GetStart(r) ==
    /\ req[r].pc = "idle"
    /\ \A q \in Reqs : q < r => req[q].pc # "idle"
    /\ req' = [req EXCEPT ![r].pc = "import"]
    /\ Silent
    /\ StillNoReply
    /\ UNCHANGED <<cachedThemes, themesLastModified, fileVars, chatVars, rankVars, uiVars>>

\* loadThemes resumes: statSync, then the cache test; it either returns
\* (cache hit, or the catch block when stat raises) or starts fs.readFile
LoadStat(r) ==
    /\ req[r].pc = "import"
    /\ IF fileState = "missing"
       THEN req' = [req EXCEPT ![r].pc = "loaded", ![r].loaded = loadThemesCatch(r)]
       ELSE IF cacheIsFresh(cachedThemes, themesLastModified, fileMtime)
            THEN req' = [req EXCEPT ![r].pc = "loaded", ![r].mtime = fileMtime,
                                    ![r].seen = [cache |-> cachedThemes,
                                                 lastModified |-> themesLastModified],
                                    ![r].hit = TRUE,
                                    ![r].loaded = Returned(cachedThemes)]
            ELSE req' = [req EXCEPT ![r].pc = "reading", ![r].mtime = fileMtime,
                                    ![r].seen = [cache |-> cachedThemes,
                                                 lastModified |-> themesLastModified]]
    /\ Silent
    /\ StillNoReply
    /\ UNCHANGED <<cachedThemes, themesLastModified, fileVars, chatVars, rankVars, uiVars>>

\* fs.readFile reads the file (or fails) while loadThemes is suspended
LoadRead(r) ==
    /\ req[r].pc = "reading"
    /\ req' = [req EXCEPT ![r].pc = "readDone",
                          ![r].buf = IF fileState = "ok"
                                     THEN ReadData(fileContent) ELSE ReadError]
    /\ Silent
    /\ StillNoReply
    /\ UNCHANGED <<cachedThemes, themesLastModified, fileVars, chatVars, rankVars, uiVars>>

\* Variant of the reload that writes the parsed themes into the cached object
\* in place, leaving its metadata
LoadParseInPlace(r) ==
    /\ req[r].pc = "readDone"
    /\ IF req[r].buf.state = "data" /\ parses(req[r].buf.content)
       THEN /\ cachedThemes' =
                  IF cachedThemes = NullRef
                  THEN Object(r, "parsed", req[r].buf.content.value)
                  ELSE [cachedThemes EXCEPT
                           !.data = [metadata |-> cachedThemes.data.metadata,
                                     themes |-> IF hasThemes(req[r].buf.content.value)
                                                THEN req[r].buf.content.value.themes
                                                ELSE <<>>]]
            /\ themesLastModified' = req[r].mtime
            /\ req' = [req EXCEPT ![r].pc = "loaded",
                                  ![r].loaded = Returned(cachedThemes')]
       ELSE /\ UNCHANGED <<cachedThemes, themesLastModified>>
            /\ req' = [req EXCEPT ![r].pc = "loaded", ![r].loaded = loadThemesCatch(r)]
    /\ Silent
    /\ StillNoReply
    /\ UNCHANGED <<fileVars, chatVars, rankVars, uiVars>>

\* Variant of the reload that records the file's mtime at the time of the
\* assignment instead of the one statted before the read
LoadParseStatsAfterRead(r) ==
    /\ req[r].pc = "readDone"
    /\ IF req[r].buf.state = "data" /\ parses(req[r].buf.content)
       THEN /\ cachedThemes' = Object(r, "parsed", req[r].buf.content.value)
            /\ themesLastModified' = fileMtime
            /\ req' = [req EXCEPT ![r].pc = "loaded",
                                  ![r].loaded = Returned(cachedThemes')]
       ELSE /\ UNCHANGED <<cachedThemes, themesLastModified>>
            /\ req' = [req EXCEPT ![r].pc = "loaded", ![r].loaded = loadThemesCatch(r)]
    /\ Silent
    /\ StillNoReply
    /\ UNCHANGED <<fileVars, chatVars, rankVars, uiVars>>

\* loadThemes resumes after the read: JSON.parse, then the two assignments
\* and the return, in one synchronous run; the catch block on a failure
LoadParse(r) ==
    /\ req[r].pc = "readDone"
    /\ IF req[r].buf.state = "data" /\ parses(req[r].buf.content)
       THEN /\ cachedThemes' = Object(r, "parsed", req[r].buf.content.value)
            /\ themesLastModified' = req[r].mtime
            /\ req' = [req EXCEPT ![r].pc = "loaded",
                                  ![r].loaded = Returned(cachedThemes')]
       ELSE /\ UNCHANGED <<cachedThemes, themesLastModified>>
            /\ req' = [req EXCEPT ![r].pc = "loaded", ![r].loaded = loadThemesCatch(r)]
    /\ Silent
    /\ StillNoReply
    /\ UNCHANGED <<fileVars, chatVars, rankVars, uiVars>>

----------------------------------------------------------------------------
(* Evidence route: GET *)

DigitSeq == <<"0","1","2","3","4","5","6","7","8","9">>
DigitVal(c) == (CHOOSE i \in DOMAIN DigitSeq : DigitSeq[i] = c) - 1

\* Value of the run of digits of s that starts at p, given the value acc of
\* the digits before it
RECURSIVE DigitsValue(_, _, _)
DigitsValue(s, p, acc) ==
    IF p > Len(s) \/ s[p] \notin Digits THEN acc
    ELSE DigitsValue(s, p + 1, acc * 10 + DigitVal(s[p]))

\* parseInt(s, 10): leading whitespace, an optional sign, then the longest
\* run of digits; NaN when there is none
parseInt(s) ==
    LET p == SkipSpace(s, 1)
        signed == p <= Len(s) /\ s[p] \in {"+", "-"}
        q == IF signed THEN p + 1 ELSE p
        magnitude == DigitsValue(s, q, 0)
    IN  IF q > Len(s) \/ s[q] \notin Digits
        THEN [nan |-> TRUE, value |-> 0]
        ELSE [nan |-> FALSE,
              value |-> IF signed /\ s[p] = "-" THEN 0 - magnitude ELSE magnitude]

\* Variant of the search test that takes an empty parameter for a query
isSearchPresent(params) == params.search.present

\* if (searchQuery): null and the empty string are falsy
isSearch(params) == params.search.present /\ params.search.value # <<>>

\* if (themeId !== null)
isThemeLookup(params) == params.theme.present

\* Variant of the lookup that settles for the first theme
findFirstTheme(themes, id) == IF themes = <<>> THEN 0 ELSE 1

\* data.themes.find(t => t.id === id): index of the first such theme, 0 if none
findTheme(themes, id) ==
    IF \E i \in 1..Len(themes) : ~id.nan /\ themes[i].id = id.value
    THEN CHOOSE i \in 1..Len(themes) :
            /\ ~id.nan /\ themes[i].id = id.value
            /\ \A j \in 1..(i - 1) : themes[j].id # id.value
    ELSE 0

\* Variant of the summary that previews every quote
themeSummaryFull(t) ==
    [id |-> t.id, label |-> t.label, count |-> t.count, pct |-> t.pct,
     quoteCount |-> Len(t.quotes),
     previewQuotes |-> t.quotes]

\* One element of the listing
themeSummary(t) ==
    [id |-> t.id, label |-> t.label, count |-> t.count, pct |-> t.pct,
     quoteCount |-> Len(t.quotes),
     previewQuotes |-> slice(t.quotes, PreviewCount)]

\* catch (error) { ... status: 500 }
InternalError == [status |-> 500, body |-> [error |-> "Internal server error"]]

\* GET after loadThemes returned data. Each of the three branches reads
\* data.themes (the for-of of searchQuotes, .find, .map): with no themes that
\* is a TypeError, which the catch of GET answers with the 500.
handleGet(data, params) ==
    IF ~hasThemes(data)
    THEN InternalError
    ELSE IF isSearch(params)
    THEN LET results == searchQuotes(data.themes, params.search.value) IN
         [status |-> 200,
          body |-> [query |-> params.search.value, count |-> Len(results),
                    results |-> results]]
    ELSE IF isThemeLookup(params)
    THEN LET k == findTheme(data.themes, parseInt(params.theme.value)) IN
         IF k = 0
         THEN [status |-> 404, body |-> [error |-> "Theme not found"]]
         ELSE [status |-> 200, body |-> data.themes[k]]
    ELSE [status |-> 200,
          body |-> [metadata |-> data.metadata,
                    themes |-> [i \in 1..Len(data.themes) |->
                                   themeSummary(data.themes[i])]]]

\* GET resumes after "await loadThemes()" and answers; its locals die with
\* the call, and answered shows the answer with the request it was for
GetRespond(r, p) ==
    /\ req[r].pc = "loaded"
    /\ req' = [req EXCEPT ![r] = [IdleReq EXCEPT !.pc = "done"]]
    /\ answered' = [r |-> r, params |-> p, loaded |-> req[r].loaded,
                    response |-> IF req[r].loaded.raised
                                 THEN InternalError
                                 ELSE handleGet(req[r].loaded.data.data, p)]
    /\ StillNoReply
    /\ UNCHANGED <<cachedThemes, themesLastModified, fileVars, chatVars, rankVars, uiVars>>

\* Query strings the model sends to the running endpoint
GetParams ==
    {[theme |-> NoParam, search |-> NoParam],
     [theme |-> NoParam, search |-> Param(<<"B","U","S">>)],
     [theme |-> Param(<<"2">>), search |-> NoParam]}

----------------------------------------------------------------------------
(* Chat route: loadThemesData, buildContext, POST *)

\* Number of POST requests the model runs
MaxChats == 2

Chats == 1..MaxChats

\* loadThemesData: the module variable once it is set; otherwise the file,
\* raising when it does not exist, cannot be read or does not parse.
\* A parsed value with no themes is assigned to themesData before the log
\* line reads themesData.themes.length and raises a TypeError.
\* cache is the value of themesData after the call.
loadThemesData(c) ==
    IF themesData # NullRef
    THEN [raised |-> FALSE, data |-> themesData, cache |-> themesData]
    ELSE IF fileState = "ok" /\ parses(fileContent)
    THEN [raised |-> ~hasThemes(fileContent.value),
          data |-> Object(c, "chat", fileContent.value),
          cache |-> Object(c, "chat", fileContent.value)]
    ELSE [raised |-> TRUE, data |-> NullRef, cache |-> themesData]

sNoRelevant == <<"N","o"," ","r","e","l","e","v","a","n","t"," ","s","u","r","v","e","y"," ","r","e","s","p","o","n","s","e","s"," ","f","o","u","n","d",".">>
sQuoteOpen == <<"[","Q","u","o","t","e"," ">>
sThemeOpen == <<"]"," ","(","T","h","e","m","e",":"," ">>
sThemeClose == <<")",":","\n">>
sBlankLine == <<"\n", "\n">>

\* Variant of contextBlock that numbers the blocks from 0
contextBlockFromZero(doc, i) ==
    sQuoteOpen \o <<DigitSeq[i + 1]>> \o sThemeOpen \o doc.source \o sThemeClose
    \o <<"\"">> \o doc.text \o <<"\"">>

\* `[Quote ${i + 1}] (Theme: ${doc.source}):\n"${doc.text}"`, i counted from 0
contextBlock(doc, i) ==
    sQuoteOpen \o <<DigitSeq[i + 2]>> \o sThemeOpen \o doc.source \o sThemeClose
    \o <<"\"">> \o doc.text \o <<"\"">>

\* Array.prototype.join('\n\n')
RECURSIVE join(_, _)
join(parts, sep) ==
    IF parts = <<>> THEN <<>>
    ELSE IF Len(parts) = 1 THEN Head(parts)
    ELSE Head(parts) \o sep \o join(Tail(parts), sep)

buildContext(docs) ==
    IF Len(docs) = 0 THEN sNoRelevant
    ELSE join([k \in 1..Len(docs) |-> contextBlock(docs[k], k - 1)], sBlankLine)

sEllipsis == <<".", ".", ".">>

\* Variant of sourceOf that shows the whole quote
sourceOfWhole(d) ==
    [id |-> d.id, text |-> d.text,
     source |-> d.source, arrival_time |-> d.arrival_time, mode |-> d.mode]

\* One element of the sources of a successful answer
sourceOf(d) ==
    [id |-> d.id,
     text |-> slice(d.text, SourceTextMax)
              \o (IF Len(d.text) > SourceTextMax THEN sEllipsis ELSE <<>>),
     source |-> d.source, arrival_time |-> d.arrival_time, mode |-> d.mode]

\* The "message" of a request body: absent, a number, or a string
Undefined == [type |-> "undefined", str |-> <<>>, num |-> 0]
Number(n) == [type |-> "number", str |-> <<>>, num |-> n]
String(v) == [type |-> "string", str |-> v, num |-> 0]

\* JavaScript truthiness of a message
truthy(m) ==
    \/ m.type = "string" /\ m.str # <<>>
    \/ m.type = "number" /\ m.num # 0

\* if (!message || typeof message !== 'string')
messageRejected(m) == ~truthy(m) \/ m.type # "string"

BadBody == [json |-> FALSE, message |-> Undefined]
Body(m) == [json |-> TRUE, message |-> m]

NoDocs == [threw |-> FALSE, docs |-> <<>>]

\* A POST before it is made.  calls lists, in order, the functions the
\* handler has called; docs and context are relevantDocs and context.
IdleChat == [pc |-> "idle", calls |-> <<>>, docs |-> <<>>, context |-> <<>>]

MessageRequired == [status |-> 400, body |-> [error |-> "Message is required"]]
ConfigError == [status |-> 500,
                body |-> [error |-> "Server configuration error: API key not set"]]
\* The answer of the inner catch.  details is errorMsg when NODE_ENV is
\* 'development' and undefined otherwise; JSON leaves out an undefined field.
GenerateError(development) ==
    IF development
    THEN [status |-> 500,
          body |-> [error |-> "Unable to generate response. Please try again.",
                    details |-> "errorMsg"]]
    ELSE [status |-> 500,
          body |-> [error |-> "Unable to generate response. Please try again."]]
ProcessError(cause) ==
    [status |-> 500,
     body |-> [error |-> "Failed to process chat request", cause |-> cause]]

\* An answer of POST with the request it was for
Reply(c, b, calls, docs, context, response) ==
    [c |-> c, body |-> b, calls |-> calls, docs |-> docs, context |-> context,
     response |-> response]

\* POST is called and suspends at "await request.json()"
PostStart(c) ==
    /\ chat[c].pc = "idle"
    /\ \A q \in Chats : q < c => chat[q].pc # "idle"
    /\ chat' = [chat EXCEPT ![c].pc = "json"]
    /\ StillNoReply
    /\ Silent
    /\ UNCHANGED <<themesData, apiKey, fileVars, evidenceVars, rankVars, uiVars>>

\* POST resumes with the body b and runs to its first return or to
\* "await model.generateContent(prompt)"
PostHandle(c, b) ==
    /\ chat[c].pc = "json"
    /\ LET loadResult == loadThemesData(c)
           found == IF loadResult.raised THEN NoDocs
                    ELSE findRelevantDocs(b.message.str, loadResult.data.data, ChatTopK)
           done == [IdleChat EXCEPT !.pc = "done"]
       IN
       IF ~b.json
       THEN /\ chat' = [chat EXCEPT ![c] = done]
            /\ replied' = Reply(c, b, <<>>, <<>>, <<>>, ProcessError("request.json"))
            /\ UNCHANGED themesData
       ELSE IF messageRejected(b.message)
       THEN /\ chat' = [chat EXCEPT ![c] = done]
            /\ replied' = Reply(c, b, <<>>, <<>>, <<>>, MessageRequired)
            /\ UNCHANGED themesData
       ELSE IF loadResult.raised
       THEN /\ chat' = [chat EXCEPT ![c] = done]
            /\ replied' = Reply(c, b, <<"loadThemesData">>, <<>>, <<>>,
                                ProcessError("loadThemesData"))
            /\ themesData' = loadResult.cache
       ELSE IF found.threw
       THEN /\ chat' = [chat EXCEPT ![c] = done]
            /\ replied' = Reply(c, b, <<"loadThemesData", "findRelevantDocs">>, <<>>, <<>>,
                                ProcessError("findRelevantDocs"))
            /\ themesData' = loadResult.cache
       ELSE IF ~apiKey
       THEN /\ chat' = [chat EXCEPT ![c] = done]
            /\ replied' = Reply(c, b,
                                <<"loadThemesData", "findRelevantDocs", "buildContext">>,
                                found.docs, buildContext(found.docs), ConfigError)
            /\ themesData' = loadResult.cache
       ELSE /\ chat' = [chat EXCEPT ![c].pc = "generate",
                                    ![c].calls = <<"loadThemesData", "findRelevantDocs",
                                                   "buildContext", "generateContent">>,
                                    ![c].docs = found.docs,
                                    ![c].context = buildContext(found.docs)]
            /\ StillNoReply
            /\ themesData' = loadResult.cache
    /\ Silent
    /\ UNCHANGED <<apiKey, fileVars, evidenceVars, rankVars, uiVars>>

\* The provider answers: POST resumes and returns the answer with its sources
PostAnswer(c) ==
    /\ chat[c].pc = "generate"
    /\ chat' = [chat EXCEPT ![c] = [IdleChat EXCEPT !.pc = "done"]]
    /\ replied' = Reply(c, NoBody, chat[c].calls, chat[c].docs, chat[c].context,
                        [status |-> 200,
                         body |-> [response |-> "answer",
                                   sources |-> [k \in 1..Len(chat[c].docs) |->
                                                  sourceOf(chat[c].docs[k])]]])
    /\ Silent
    /\ UNCHANGED <<themesData, apiKey, fileVars, evidenceVars, rankVars, uiVars>>

\* Variant of the inner catch that calls the provider again
PostProviderFailsAndRetries(c) ==
    /\ chat[c].pc = "generate"
    /\ chat' = [chat EXCEPT ![c].calls = Append(chat[c].calls, "generateContent")]
    /\ StillNoReply
    /\ Silent
    /\ UNCHANGED <<themesData, apiKey, fileVars, evidenceVars, rankVars, uiVars>>

\* The provider call fails: the inner catch block
PostProviderFails(c) ==
    /\ chat[c].pc = "generate"
    /\ chat' = [chat EXCEPT ![c] = [IdleChat EXCEPT !.pc = "done"]]
    /\ \E development \in BOOLEAN :
          replied' = Reply(c, NoBody, chat[c].calls, chat[c].docs, chat[c].context,
                           GenerateError(development))
    /\ Silent
    /\ UNCHANGED <<themesData, apiKey, fileVars, evidenceVars, rankVars, uiVars>>

\* Request bodies the model sends
ChatMessages == {Undefined, Number(5), String(<<>>), String(<<" ", " ">>),
                 String(<<"b","u","s"," ","l","a","t","e">>), String(<<"(","b","u","s">>), String(<<"z","z","z">>)}
ChatBodies == {BadBody} \cup {Body(m) : m \in ChatMessages}

----------------------------------------------------------------------------
(* Harness: searchQuotes, findRelevantDocs and the body of GET applied to    *)
(* drawn inputs                                                              *)

NoOut == [op |-> "none"]

\* The themes array after GET ran on data: the search branch calls
\* searchQuotes on it; find, map and the slice of the previews write nothing
themesAfterGet(themes, params) ==
    IF isSearch(params) THEN themesAfterSearch(themes, params.search.value) ELSE themes

\* Values of the "theme" parameter, each with what parseInt(value, 10) is
ThemeIdInputs ==
    {[text |-> <<"1">>, nan |-> FALSE, id |-> 1],
     [text |-> <<"2">>, nan |-> FALSE, id |-> 2],
     [text |-> <<"9">>, nan |-> FALSE, id |-> 9],
     [text |-> <<"4","x">>, nan |-> FALSE, id |-> 4],
     [text |-> <<" ","3">>, nan |-> FALSE, id |-> 3],
     [text |-> <<"-","1">>, nan |-> FALSE, id |-> 0 - 1],
     [text |-> <<"x">>, nan |-> TRUE, id |-> 0],
     [text |-> <<>>, nan |-> TRUE, id |-> 0]}

\* Query strings of the harness: with or without "search" (the drawn query),
\* with or without "theme"
HarnessParams ==
    {[theme |-> t, search |-> q] :
        t \in {NoParam} \cup {Param(x.text) : x \in ThemeIdInputs},
        q \in {NoParam, Param(rankQuery)}}

RankSearch ==
    /\ rankOut = NoOut
    /\ rankOut' = [op |-> "search", results |-> searchQuotes(rankThemes, rankQuery),
                   after |-> themesAfterSearch(rankThemes, rankQuery)]
    /\ Silent
    /\ StillNoReply
    /\ UNCHANGED <<rankThemes, rankQuery, fileVars, evidenceVars, chatVars, uiVars>>

RankChat ==
    /\ rankOut = NoOut
    /\ LET found == findRelevantDocs(rankQuery, [themes |-> rankThemes], ChatTopK) IN
       rankOut' = [op |-> "chat",
                   out |-> found,
                   context |-> IF found.threw THEN <<>> ELSE buildContext(found.docs),
                   after |-> themesAfterRanking(rankThemes, rankQuery)]
    /\ Silent
    /\ StillNoReply
    /\ UNCHANGED <<rankThemes, rankQuery, fileVars, evidenceVars, chatVars, uiVars>>

RankGet(p) ==
    /\ rankOut = NoOut
    /\ rankOut' = [op |-> "get", params |-> p,
                   response |-> handleGet([metadata |-> Metadata1, themes |-> rankThemes], p),
                   after |-> themesAfterGet(rankThemes, p)]
    /\ Silent
    /\ StillNoReply
    /\ UNCHANGED <<rankThemes, rankQuery, fileVars, evidenceVars, chatVars, uiVars>>

----------------------------------------------------------------------------
(* Chat client: ChatInterface and sendMessage.  An event handler runs to its *)
(* first await in one step, and React renders the state it set before the    *)
(* next event is handled, so each handler sees the current state.            *)

\* Number of submit events the model delivers
MaxSubmits == 3

Submits == 1..MaxSubmits

\* String.prototype.trim
RECURSIVE trimStart(_)
trimStart(s) == IF s # <<>> /\ IsSpace(Head(s)) THEN trimStart(Tail(s)) ELSE s
RECURSIVE trimEnd(_)
trimEnd(s) ==
    IF s # <<>> /\ IsSpace(s[Len(s)]) THEN trimEnd(SubSeq(s, 1, Len(s) - 1)) ELSE s
trim(s) == trimEnd(trimStart(s))

\* The greeting the message list starts with
Greeting == [role |-> "assistant", content |-> "Hi! I'm your parking survey analyst.",
             sources |-> <<>>]

NoError == [kind |-> "null"]
FailedBanner == [kind |-> "string", text |-> "Failed to get response. Please try again."]

\* A sendMessage call that has not been made
NoCall == [pc |-> "none", userMessage |-> <<>>]

\* useState initial values; initialMessage is the prop (absent: "")
InitialClient(initialMessage) ==
    [messages  |-> <<Greeting>>,
     input     |-> initialMessage,
     isLoading |-> FALSE,
     error     |-> NoError,
     submits   |-> 0,
     calls     |-> [k \in Submits |-> NoCall]]

\* if (!input.trim() || isLoading) return;
sendRejected(input, isLoading) == trim(input) = <<>> \/ isLoading

\* onChange of the input, which is disabled while isLoading
TypeInput(s) ==
    /\ ~client.isLoading
    /\ client.input # s
    /\ client' = [client EXCEPT !.input = s]
    /\ UNCHANGED page
    /\ Silent
    /\ StillNoReply
    /\ UNCHANGED <<fileVars, evidenceVars, chatVars, rankVars>>

\* A submit event calls sendMessage, which returns at the guard or runs up to
\* "await fetch": input cleared, error cleared, the user message appended,
\* isLoading set, the request sent
Submit(k) ==
    /\ k = client.submits + 1
    /\ IF sendRejected(client.input, client.isLoading)
       THEN client' = [client EXCEPT !.submits = k,
                                     !.calls[k] = [pc |-> "returned", userMessage |-> <<>>]]
       ELSE client' = [client EXCEPT
                          !.submits = k,
                          !.input = <<>>,
                          !.error = NoError,
                          !.messages = Append(@, [role |-> "user",
                                                  content |-> trim(client.input),
                                                  sources |-> <<>>]),
                          !.isLoading = TRUE,
                          !.calls[k] = [pc |-> "fetch", userMessage |-> trim(client.input)]]
    /\ UNCHANGED page
    /\ Silent
    /\ StillNoReply
    /\ UNCHANGED <<fileVars, evidenceVars, chatVars, rankVars>>

\* Variant of the catch block that also appends an assistant message
sendFailedWithApology(k) ==
    [client EXCEPT !.error = FailedBanner, !.isLoading = FALSE, !.calls[k].pc = "done",
                   !.messages = Append(@, [role |-> "assistant",
                                           content |-> "Sorry, something went wrong.",
                                           sources |-> <<>>])]

\* catch { setError(...) } finally { setIsLoading(false) }
sendFailed(k) ==
    [client EXCEPT !.error = FailedBanner, !.isLoading = FALSE, !.calls[k].pc = "done"]

\* The fetch settles: it rejects (network error), or resolves with a response
\* that is not ok (throw) or ok (sendMessage goes on to "await response.json()")
FetchSettles(k, outcome) ==
    /\ client.calls[k].pc = "fetch"
    /\ client' = IF outcome = "ok"
                 THEN [client EXCEPT !.calls[k].pc = "json"]
                 ELSE sendFailed(k)
    /\ UNCHANGED page
    /\ Silent
    /\ StillNoReply
    /\ UNCHANGED <<fileVars, evidenceVars, chatVars, rankVars>>

FetchOutcomes == {"ok", "notOk", "rejected"}

\* The bodies of 200 answers of POST /api/chat the model delivers
ChatAnswers ==
    {[response |-> "Buses are late.", sources |-> <<>>],
     [response |-> "Parking costs too much.", sources |-> <<"1_0">>]}

\* response.json() settles: the assistant message is appended, or the body
\* does not parse and the catch block runs; then finally
JsonSettles(k, parsed, data) ==
    /\ client.calls[k].pc = "json"
    /\ client' = IF parsed
                 THEN [client EXCEPT
                          !.messages = Append(@, [role |-> "assistant",
                                                  content |-> data.response,
                                                  sources |-> data.sources]),
                          !.isLoading = FALSE,
                          !.calls[k].pc = "done"]
                 ELSE sendFailed(k)
    /\ UNCHANGED page
    /\ Silent
    /\ StillNoReply
    /\ UNCHANGED <<fileVars, evidenceVars, chatVars, rankVars>>

\* What the user types
TypedInputs == {<<>>, <<" ", " ">>, <<"b","u","s">>, <<" ","h","i"," ">>}

----------------------------------------------------------------------------
(* Evidence page: EvidencePage and the loadThemes of its effect              *)

\* The built-in themes (pct in tenths of a percent)
mockThemes ==
    <<[id |-> 0, label |-> "Need More Spots", count |-> 87, pct |-> 321,
       quotes |-> <<"There are simply not enough parking spots for the number of students who need them.",
                    "Build more parking decks. The current capacity is nowhere near what we need.",
                    "Adding more spaces near the engineering building would help tremendously.",
                    "We need at least 2-3 more parking structures to meet demand.",
                    "Expand existing lots - there is unused green space that could be paved.">>],
      [id |-> 1, label |-> "Cost Concerns", count |-> 64, pct |-> 236,
       quotes |-> <<"The parking pass is way too expensive for students who are already paying tuition.",
                    "I pay $600 for a pass but can never find a spot. What am I paying for?",
                    "Reduce the cost of permits or offer sliding scale based on financial need.",
                    "Its ridiculous that we pay so much and still have to hunt for parking.",
                    "Make parking free for students - we already pay enough in fees.">>],
      [id |-> 2, label |-> "Distance from Classes", count |-> 52, pct |-> 192,
       quotes |-> <<"The only spots available are a 15 minute walk from my classes.",
                    "By the time I get from the parking deck to class, Im already exhausted.",
                    "Need more parking closer to academic buildings, not just at the edges.",
                    "Walking from the rec center lot in summer heat is dangerous.",
                    "The shuttle doesnt run often enough to help with the distance issue.">>],
      [id |-> 3, label |-> "Peak Time Issues", count |-> 38, pct |-> 140,
       quotes |-> <<"If you arrive after 9am, forget about finding a spot anywhere.",
                    "The 10am-12pm window is impossible. I have to arrive at 7:30 for a 10am class.",
                    "Stagger class times so not everyone is trying to park at once.",
                    "Morning rush hour is chaos - need better flow management.",
                    "Reserve some spots for late arrivers who have afternoon classes.">>],
      [id |-> 4, label |-> "Navigation & Signage", count |-> 30, pct |-> 111,
       quotes |-> <<"Add digital signs showing available spots in each deck level.",
                    "The lots are confusing - better signage would help new students.",
                    "An app showing real-time availability would save so much time.",
                    "I waste 10 minutes just driving around looking for open spots.",
                    "Color code the decks and add clear directional signs.">>]>>

NoMetadata == [kind |-> "null"]

\* A detail request that has not settled
Pending == [kind |-> "pending"]

\* useState initial values, before the effect runs
InitialPage ==
    [pc       |-> "mounted",
     themes   |-> mockThemes,
     loading  |-> TRUE,
     metadata |-> NoMetadata,
     listed   |-> <<>>,
     detail   |-> <<>>]

\* The artifact after the pipeline ran on other input: theme 2 is gone and
\* themes 1 and 3 have other quotes
DataC ==
    [metadata |-> Metadata2,
     themes |-> <<[Theme1 EXCEPT !.count = 1, !.quotes = <<sBusIsLate>>],
                  [Theme3 EXCEPT !.count = 1, !.quotes = <<sLot>>]>>]

\* What loadThemes of the route hands GET when a request of the page arrives:
\* a dataset of the artifact, the empty dataset of its catch block, or a JSON
\* value without themes
ServerData == Datasets \cup {DataC, MockData, DataNoThemes}

\* `${t.id}` for an id that is a natural number
RECURSIVE numberToString(_)
numberToString(n) ==
    IF n < 10 THEN <<DigitSeq[n + 1]>>
    ELSE numberToString(n \div 10) \o <<DigitSeq[(n % 10) + 1]>>

\* Most themes a listing of the model has
MaxListed == 3

\* Response.ok
ok(res) == res.status >= 200 /\ res.status <= 299

\* data.themes && data.themes.length > 0
hasListedThemes(data) == "themes" \in DOMAIN data /\ Len(data.themes) > 0

\* catch (logs) and finally { setLoading(false) }: the themes stay
pageKeepsThemes == [page EXCEPT !.pc = "done", !.loading = FALSE]

\* The effect runs after the first render: loadThemes up to "await fetch"
PageStart ==
    /\ page.pc = "mounted"
    /\ page' = [page EXCEPT !.pc = "listing"]
    /\ UNCHANGED client
    /\ Silent
    /\ StillNoReply
    /\ UNCHANGED <<fileVars, evidenceVars, chatVars, rankVars>>

\* fetch('/api/evidence') rejects
ListingRejects ==
    /\ page.pc = "listing"
    /\ page' = pageKeepsThemes
    /\ UNCHANGED client
    /\ Silent
    /\ StillNoReply
    /\ UNCHANGED <<fileVars, evidenceVars, chatVars, rankVars>>

\* fetch('/api/evidence') resolves with the answer GET gives for data d:
\* a response that is not ok throws; otherwise res.json() and either the
\* detail requests are sent, one per listed theme, or the themes stay
ListingResolves(d) ==
    /\ page.pc = "listing"
    /\ LET res == handleGet(d, [theme |-> NoParam, search |-> NoParam]) IN
       IF ok(res) /\ hasListedThemes(res.body)
       THEN page' = [page EXCEPT !.pc = "details",
                                 !.listed = res.body,
                                 !.detail = [i \in 1..Len(res.body.themes) |-> Pending]]
       ELSE page' = pageKeepsThemes
    /\ UNCHANGED client
    /\ Silent
    /\ StillNoReply
    /\ UNCHANGED <<fileVars, evidenceVars, chatVars, rankVars>>

\* return detailRes.ok ? await detailRes.json() : t;
detailOr(res, t) == IF ok(res) THEN res.body ELSE t

\* fetch(`/api/evidence?theme=${t.id}`) of listed theme i resolves with the
\* answer GET gives for data d
DetailResolves(i, d) ==
    /\ page.pc = "details"
    /\ i \in 1..Len(page.detail)
    /\ page.detail[i] = Pending
    /\ LET t == page.listed.themes[i]
           res == handleGet(d, [theme |-> Param(numberToString(t.id)),
                                search |-> NoParam])
       IN  page' = [page EXCEPT !.detail[i] = detailOr(res, t)]
    /\ UNCHANGED client
    /\ Silent
    /\ StillNoReply
    /\ UNCHANGED <<fileVars, evidenceVars, chatVars, rankVars>>

\* A detail fetch rejects: Promise.all rejects and the catch block runs
DetailRejects(i) ==
    /\ page.pc = "details"
    /\ i \in 1..Len(page.detail)
    /\ page.detail[i] = Pending
    /\ page' = pageKeepsThemes
    /\ UNCHANGED client
    /\ Silent
    /\ StillNoReply
    /\ UNCHANGED <<fileVars, evidenceVars, chatVars, rankVars>>

\* Promise.all resolves: setThemes(fullThemes), setMetadata, setLoading(false)
PageShowsDetails ==
    /\ page.pc = "details"
    /\ \A i \in 1..Len(page.detail) : page.detail[i] # Pending
    /\ page' = [page EXCEPT !.pc = "done",
                            !.themes = page.detail,
                            !.metadata = page.listed.metadata,
                            !.loading = FALSE]
    /\ UNCHANGED client
    /\ Silent
    /\ StillNoReply
    /\ UNCHANGED <<fileVars, evidenceVars, chatVars, rankVars>>

----------------------------------------------------------------------------
(* Specifications *)

\* State of the parts a specification does not exercise
FileIdle == fileContent = Corrupt /\ fileState = "missing" /\ fileMtime = 1
EvidenceIdle ==
    /\ cachedThemes = NullRef
    /\ themesLastModified = 0
    /\ req = [r \in Reqs |-> IdleReq]
    /\ answered = NoAnswer
ChatIdle ==
    /\ themesData = NullRef
    /\ apiKey = FALSE
    /\ chat = [c \in Chats |-> IdleChat]
    /\ replied = NoReply
RankIdle == rankThemes = <<>> /\ rankQuery = <<>> /\ rankOut = NoOut
UiIdle == client = InitialClient(<<>>) /\ page = InitialPage

FileInit ==
    /\ fileContent \in FileContents
    /\ fileState \in {"ok", "missing"}
    /\ fileMtime = 1

FileNext ==
    \/ \E c \in FileContents : WriteArtifact(c)
    \/ RemoveArtifact
    \/ RestoreArtifact
    \/ ChmodArtifact

\* The evidence endpoint with its artifact
Init == FileInit /\ EvidenceIdle /\ ChatIdle /\ RankIdle /\ UiIdle

Next ==
    \/ FileNext
    \/ \E r \in Reqs : GetStart(r)
    \/ \E r \in Reqs : LoadStat(r)
    \/ \E r \in Reqs : LoadRead(r)
    \/ \E r \in Reqs : LoadParse(r)
    \/ \E r \in Reqs, p \in GetParams : GetRespond(r, p)

Spec == Init /\ [][Next]_vars

\* The chat endpoint with its artifact
InitChat ==
    /\ FileInit /\ EvidenceIdle /\ RankIdle /\ UiIdle
    /\ themesData = NullRef
    /\ apiKey \in BOOLEAN
    /\ chat = [c \in Chats |-> IdleChat]
    /\ replied = NoReply

NextChat ==
    \/ FileNext
    \/ \E c \in Chats : PostStart(c)
    \/ \E c \in Chats, b \in ChatBodies : PostHandle(c, b)
    \/ \E c \in Chats : PostAnswer(c)
    \/ \E c \in Chats : PostProviderFails(c)

SpecChat == InitChat /\ [][NextChat]_vars

\* The ranking functions on drawn inputs
InitRank ==
    /\ FileIdle /\ EvidenceIdle /\ ChatIdle /\ UiIdle
    /\ rankThemes \in ThemeCollections
    /\ rankQuery \in Queries
    /\ rankOut = NoOut

NextRank ==
    \/ RankSearch
    \/ RankChat
    \/ \E p \in HarnessParams : RankGet(p)

SpecRank == InitRank /\ [][NextRank]_vars

\* The chat client against an endpoint that answers, fails or is unreachable
InitClient ==
    /\ FileIdle /\ EvidenceIdle /\ ChatIdle /\ RankIdle
    /\ client \in {InitialClient(m) : m \in {<<>>, <<"b","u","s">>}}
    /\ page = InitialPage

NextClient ==
    \/ \E s \in TypedInputs : TypeInput(s)
    \/ \E k \in Submits : Submit(k)
    \/ \E k \in Submits, outcome \in FetchOutcomes : FetchSettles(k, outcome)
    \/ \E k \in Submits, parsed \in BOOLEAN, data \in ChatAnswers : JsonSettles(k, parsed, data)

\* The browser settles every fetch and every body read: with a response or
\* with a rejection
ClientFairness ==
    \A k \in Submits :
        /\ WF_vars(\E outcome \in FetchOutcomes : FetchSettles(k, outcome))
        /\ WF_vars(\E parsed \in BOOLEAN, data \in ChatAnswers : JsonSettles(k, parsed, data))

SpecClientLive == InitClient /\ [][NextClient]_vars /\ ClientFairness

\* The evidence page against the evidence endpoint
InitPage ==
    /\ FileIdle /\ EvidenceIdle /\ ChatIdle /\ RankIdle
    /\ client = InitialClient(<<>>)
    /\ page = InitialPage

NextPage ==
    \/ PageStart
    \/ ListingRejects
    \/ \E d \in ServerData : ListingResolves(d)
    \/ \E i \in 1..MaxListed, d \in ServerData : DetailResolves(i, d)
    \/ \E i \in 1..MaxListed : DetailRejects(i)
    \/ PageShowsDetails

SpecPage == InitPage /\ [][NextPage]_vars


----------------------------------------------------------------------------
(* Claims *)

Min(a, b) == IF a < b THEN a ELSE b

\* The whole of a ThemesData with no theme and zero counts
IsEmptyThemesData(d) ==
    /\ d.themes = <<>>
    /\ d.metadata.total_texts = 0
    /\ d.metadata.n_clusters = 0

\* The stat of the call of request r succeeded
Statted(r) == req[r].mtime # 0

\* The cache test of the call of request r had a snapshot recorded under the
\* mtime the stat returned
SawFresh(r) == req[r].seen.cache # NullRef /\ req[r].seen.lastModified = req[r].mtime

\* The call of request r read text that parses
ReadParsable(r) == req[r].buf.state = "data" /\ req[r].buf.content.kind = "json"

\* C1: a load whose stat returns the mtime recorded with a cached snapshot
\* returns that very snapshot (same reference) and reads nothing; a load
\* whose stat returns another mtime, or that finds no snapshot, reads the
\* file and, when what it read parses, returns a new object holding the
\* content it read.
C1_MtimeInvalidation ==
    \A r \in Reqs :
        (req[r].pc = "loaded" /\ Statted(r)) =>
            IF SawFresh(r)
            THEN /\ req[r].hit
                 /\ req[r].loaded = [raised |-> FALSE, data |-> req[r].seen.cache]
                 /\ req[r].buf.state = "none"
            ELSE /\ ~req[r].hit
                 /\ req[r].buf.state # "none"
                 /\ ReadParsable(r) =>
                       /\ req[r].loaded.data.id = <<r, "parsed">>
                       /\ req[r].loaded.data.data = req[r].buf.content.value

\* C1 witness: a load found a snapshot recorded under another mtime, read the
\* file and returned content that differs from the snapshot it found
C1_Witness ==
    \E r \in Reqs :
        /\ req[r].pc = "loaded" /\ Statted(r)
        /\ req[r].seen.cache # NullRef
        /\ req[r].seen.lastModified # req[r].mtime
        /\ ReadParsable(r)
        /\ req[r].loaded.data.data = req[r].buf.content.value
        /\ req[r].loaded.data.data # req[r].seen.cache.data

\* The load of request r failed: stat raised, or the read failed, or what
\* was read does not parse
LoadFailed(r) == ~req[r].hit /\ ~ReadParsable(r)

\* C2 (as claimed): loadThemes never raises and returns an empty ThemesData
\* when the artifact is missing, unreadable or not JSON, so that GET answers
\* no 500 in any state of the artifact.
C2_NeverA500 ==
    /\ \A r \in Reqs :
          req[r].pc = "loaded" =>
             /\ ~req[r].loaded.raised
             /\ LoadFailed(r) => IsEmptyThemesData(req[r].loaded.data.data)
    /\ answered.r # 0 => answered.response.status # 500

\* C2 (amended): loadThemes never raises; when the artifact is missing,
\* unreadable or not JSON it returns an empty ThemesData; GET answers a 500
\* exactly when the load returned a parsed value that has no themes, so
\* never when the artifact is missing, unreadable, not JSON or a ThemesData.
C2_FailOpen ==
    /\ \A r \in Reqs :
          req[r].pc = "loaded" =>
             /\ ~req[r].loaded.raised
             /\ req[r].loaded.data.kind = "object"
             /\ LoadFailed(r) => IsEmptyThemesData(req[r].loaded.data.data)
    /\ answered.r # 0 =>
          /\ ~answered.loaded.raised
          /\ (answered.response.status = 500) <=>
                (answered.loaded.data.data = DataNoThemes)
          /\ answered.response.status \in {200, 404, 500}

\* C2 witness: GET answers 200 with an empty listing from a load that read
\* unparsable text
C2_Witness ==
    /\ answered.r # 0
    /\ answered.loaded.data.id = <<answered.r, "mock">>
    /\ answered.response.status = 200
    /\ answered.params = [theme |-> NoParam, search |-> NoParam]
    /\ answered.response.body.themes = <<>>
    /\ fileState = "ok" /\ fileContent = Corrupt

\* A successful reload by request r in this step
Reloads(r) ==
    /\ req[r].pc = "readDone" /\ req'[r].pc = "loaded"
    /\ ReadParsable(r)

\* C3: every ThemesData a load returns is whole: the snapshot the cache test
\* found, or the content of one read, or the empty dataset; the cache always
\* holds null or one whole content, null exactly when no mtime is recorded;
\* a reload that completes replaces snapshot and mtime together with what it
\* read and the mtime it statted (the last to complete wins), and nothing
\* else changes either.
C3_StateInv ==
    /\ \A r \in Reqs :
          req[r].pc = "loaded" =>
             /\ req[r].loaded.data.kind = "object"
             /\ req[r].loaded.data.data \in ParsedValues \cup {MockData}
             /\ req[r].hit => req[r].loaded.data = req[r].seen.cache
             /\ (~req[r].hit /\ ReadParsable(r)) =>
                   req[r].loaded.data.data = req[r].buf.content.value
    /\ cachedThemes # NullRef => cachedThemes.data \in ParsedValues
    /\ (cachedThemes = NullRef) <=> (themesLastModified = 0)
    /\ \A r \in Reqs :
          (req[r].pc = "loaded" /\ cachedThemes # NullRef
              /\ cachedThemes.id = <<r, "parsed">>) =>
             /\ themesLastModified = req[r].mtime
             /\ cachedThemes = req[r].loaded.data

C3_StepInv ==
    /\ \A r \in Reqs :
          Reloads(r) =>
             /\ cachedThemes' = [kind |-> "object", id |-> <<r, "parsed">>,
                                 data |-> req[r].buf.content.value]
             /\ themesLastModified' = req[r].mtime
             /\ req'[r].loaded.data = cachedThemes'
    /\ (cachedThemes' # cachedThemes \/ themesLastModified' # themesLastModified) =>
          \E r \in Reqs : Reloads(r)

C3_AtomicSnapshot == [](C3_StateInv) /\ [][C3_StepInv]_vars

\* C3 witness: two loads raced across an update; the one that statted the
\* older mtime completed last, so the cache holds its snapshot under its
\* mtime, while the other caller holds the whole newer content
C3_Witness ==
    \E r, q \in Reqs :
        /\ r # q
        /\ req[r].pc = "loaded" /\ req[q].pc = "loaded"
        /\ ReadParsable(r) /\ ReadParsable(q)
        /\ req[r].mtime < req[q].mtime
        /\ cachedThemes = req[r].loaded.data
        /\ themesLastModified = req[r].mtime
        /\ req[q].loaded.data.id = <<q, "parsed">>
        /\ req[q].loaded.data.data # req[r].loaded.data.data

\* The quotes of the drawn themes as (theme index, quote index) pairs
QuoteSlots ==
    {<<t, i>> : t \in 1..Len(rankThemes), i \in 1..BigQuotes} \cap
    {x \in (1..Len(rankThemes)) \X (1..BigQuotes) : x[2] <= Len(rankThemes[x[1]].quotes)}

SlotQuote(x) == rankThemes[x[1]].quotes[x[2]]

\* C4: no element of a search result has score <= 0, and no quote that the
\* search scorer gives 0 is in the result.
C4_SearchOnlyPositive ==
    rankOut.op = "search" =>
        /\ \A k \in 1..Len(rankOut.results) : rankOut.results[k].score > 0
        /\ \A x \in QuoteSlots :
              searchScore(SlotQuote(x), rankQuery) = 0 =>
                 ~\E k \in 1..Len(rankOut.results) :
                      /\ rankOut.results[k].quote = SlotQuote(x)
                      /\ rankOut.results[k].themeId = rankThemes[x[1]].id

\* C4 witness: a search returned some quotes and left out a quote of score 0
C4_Witness ==
    /\ rankOut.op = "search"
    /\ Len(rankOut.results) > 0
    /\ \E x \in QuoteSlots : searchScore(SlotQuote(x), rankQuery) = 0

TotalQuotes == SumSeq([t \in 1..Len(rankThemes) |-> Len(rankThemes[t].quotes)])

\* C5 (as claimed): findRelevantDocs with topK = 5 returns exactly
\* min(5, totalQuotes) entries for every query.
C5_ChatReturnsMinFive ==
    rankOut.op = "chat" =>
        /\ ~rankOut.out.threw
        /\ Len(rankOut.out.docs) = Min(5, TotalQuotes)

\* Number of elements of s with a score above m
CountAbove(s, m) == Cardinality({k \in 1..Len(s) : s[k].score > m})

\* result is the top-K prefix of the candidates by descending score
IsTopK(result, candidates, K) ==
    /\ Len(result) = Min(K, Len(candidates))
    /\ \A k \in 1..(Len(result) - 1) : result[k].score >= result[k + 1].score
    /\ \A k \in 1..Len(result) :
          /\ \E j \in 1..Len(candidates) : candidates[j] = result[k]
          /\ CountAbove(candidates, result[k].score) = CountAbove(result, result[k].score)

ScoreAboveZero(r) == r.score > 0
SearchCandidates ==
    SelectSeq(allScored(rankThemes, toLowerCase(rankQuery), queryTerms(rankQuery)),
              ScoreAboveZero)
ChatCandidates == allDocs(rankThemes, rankQuery)

\* C6: a returned ranking is non-increasing in score, has min(K, number of
\* candidates) elements (K = 20 for search, 5 for chat), and leaves out no
\* candidate that scores above a returned one.
C6_TopKPrefix ==
    /\ rankOut.op = "search" => IsTopK(rankOut.results, SearchCandidates, 20)
    /\ (rankOut.op = "chat" /\ ~rankOut.out.threw) =>
          IsTopK(rankOut.out.docs, ChatCandidates, 5)

\* C6 witness: a search with more than 20 candidates of different scores
\* returned 20 of them
C6_Witness ==
    /\ rankOut.op = "search"
    /\ Len(SearchCandidates) > 20
    /\ Len(rankOut.results) = 20
    /\ rankOut.results[1].score > rankOut.results[20].score

\* The answer of a search for query over the drawn themes
IsSearchAnswer(response, query) ==
    /\ response.status = 200
    /\ DOMAIN response.body = {"query", "count", "results"}
    /\ response.body.query = query
    /\ response.body.count = Len(response.body.results)
    /\ response.body.results = searchQuotes(rankThemes, query)
    /\ rankThemes = <<>> => (response.body.count = 0 /\ response.body.results = <<>>)

\* C7 (as claimed): whenever the request carries a search parameter, GET
\* answers { query, count, results }.
C7_SearchParamAnswered ==
    (rankOut.op = "get" /\ rankOut.params.search.present) =>
        IsSearchAnswer(rankOut.response, rankOut.params.search.value)

\* C7 (amended): whenever the request carries a non-empty search parameter,
\* GET answers { query, count, results } with query the parameter, results
\* the search ranking and count its length (0 and [] with zero themes); an
\* empty search parameter is answered as if the request had none.
C7_NonEmptySearchAnswered ==
    rankOut.op = "get" =>
        /\ (rankOut.params.search.present /\ rankOut.params.search.value # <<>>) =>
              IsSearchAnswer(rankOut.response, rankOut.params.search.value)
        /\ (rankOut.params.search.present /\ rankOut.params.search.value = <<>>) =>
              rankOut.response =
                 handleGet([metadata |-> Metadata1, themes |-> rankThemes],
                           [theme |-> rankOut.params.theme, search |-> NoParam])

\* C7 witness: a search answered with at least one result
C7_Witness ==
    /\ rankOut.op = "get"
    /\ rankOut.params.search.present /\ rankOut.params.search.value # <<>>
    /\ rankOut.response.status = 200
    /\ rankOut.response.body.count > 0
    /\ rankOut.response.body.query = rankOut.params.search.value

\* The request of the harness is a theme lookup: no search, a theme parameter
IsLookup ==
    /\ rankOut.op = "get"
    /\ ~(rankOut.params.search.present /\ rankOut.params.search.value # <<>>)
    /\ rankOut.params.theme.present

\* The integer the theme parameter of the harness request stands for
Requested == CHOOSE x \in ThemeIdInputs : x.text = rankOut.params.theme.value

\* C8: a theme lookup answers a theme only if its id is the requested id,
\* and answers the 404 "Theme not found" when no loaded theme has that id
\* (no themes at all, or a parameter that is no integer, included); never 500.
C8_ThemeLookup ==
    IsLookup =>
        IF ~Requested.nan /\ \E t \in 1..Len(rankThemes) : rankThemes[t].id = Requested.id
        THEN /\ rankOut.response.status = 200
             /\ rankOut.response.body.id = Requested.id
             /\ \E t \in 1..Len(rankThemes) : rankThemes[t] = rankOut.response.body
        ELSE rankOut.response = [status |-> 404, body |-> [error |-> "Theme not found"]]

\* C8 witness: a lookup of an id no loaded theme has, among loaded themes
C8_Witness ==
    /\ IsLookup
    /\ rankThemes # <<>>
    /\ ~Requested.nan
    /\ rankOut.response.status = 404

\* C9: the listing has one summary per loaded theme, in theme order, with
\* quoteCount the number of quotes and previewQuotes the first
\* min(2, quoteCount) quotes in their order.
C9_Listing ==
    (rankOut.op = "get" /\ ~rankOut.params.search.present
        /\ ~rankOut.params.theme.present) =>
        /\ rankOut.response.status = 200
        /\ Len(rankOut.response.body.themes) = Len(rankThemes)
        /\ \A t \in 1..Len(rankThemes) :
              LET sum == rankOut.response.body.themes[t]
                  theme == rankThemes[t]
              IN  /\ sum.id = theme.id
                  /\ sum.label = theme.label
                  /\ sum.count = theme.count
                  /\ sum.pct = theme.pct
                  /\ sum.quoteCount = Len(theme.quotes)
                  /\ Len(sum.previewQuotes) = Min(2, Len(theme.quotes))
                  /\ \A k \in 1..Len(sum.previewQuotes) :
                        sum.previewQuotes[k] = theme.quotes[k]

\* C9 witness: a listing of two themes, one with more than two quotes and
\* one with fewer
C9_Witness ==
    /\ rankOut.op = "get"
    /\ ~rankOut.params.search.present /\ ~rankOut.params.theme.present
    /\ Len(rankOut.response.body.themes) = 2
    /\ \E t \in 1..2 : rankOut.response.body.themes[t].quoteCount > 2
    /\ \E t \in 1..2 : rankOut.response.body.themes[t].quoteCount < 2

\* A message that is missing, not a string, empty or only whitespace
IsBlankMessage(m) ==
    \/ m.type # "string"
    \/ \A k \in 1..Len(m.str) : m.str[k] \in {" ", "\t", "\n"}

\* C10 (as claimed): a POST whose message is missing, not a string, empty or
\* blank is answered 400 "Message is required" before loadThemesData or
\* findRelevantDocs is called.
C10_BlankRejected ==
    (replied.c # 0 /\ replied.body.json /\ IsBlankMessage(replied.body.message)) =>
        /\ replied.response = [status |-> 400, body |-> [error |-> "Message is required"]]
        /\ replied.calls = <<>>

\* A message the chat endpoint is to accept: a string that is not blank
IsValidMessage(m) == m.type = "string" /\ ~IsBlankMessage(m)

\* The reply is the answer of a request that sent a valid message, or of a
\* request that went as far as the provider (only a valid message gets there)
ProviderCalled == \E k \in 1..Len(replied.calls) : replied.calls[k] = "generateContent"

ValidMessageReply ==
    /\ replied.c # 0
    /\ \/ replied.body.json /\ IsValidMessage(replied.body.message)
       \/ ProviderCalled

IsConfigError(response) ==
    /\ response.status = 500
    /\ response.body.error = "Server configuration error: API key not set"

IsGenericError(response) ==
    /\ response.status = 500
    /\ response.body.error = "Unable to generate response. Please try again."

\* C11 (as claimed): a valid message with the credential absent is answered
\* with the configuration error and the provider is not called; a failed
\* provider call is answered with the generic error; both answers carry an
\* error and no response field, and differ from each other and from a success.
C11_UpstreamErrors ==
    ValidMessageReply =>
        /\ ~apiKey =>
              /\ IsConfigError(replied.response)
              /\ ~ProviderCalled
        /\ (apiKey /\ replied.response.status # 200) =>
              /\ IsGenericError(replied.response)
              /\ replied.calls[Len(replied.calls)] = "generateContent"
        /\ replied.response.status # 200 =>
              /\ "error" \in DOMAIN replied.response.body
              /\ "response" \notin DOMAIN replied.response.body
        /\ replied.response.status = 200 => "response" \in DOMAIN replied.response.body

\* The artifact is missing, unreadable or not JSON
ArtifactUnavailable == fileState # "ok" \/ fileContent = Corrupt

\* The reply is the answer POST gave, in this step, to a valid message
AnsweredValidMessage ==
    /\ replied.c # 0
    /\ replied.body.json
    /\ IsValidMessage(replied.body.message)

\* C12 (as claimed): on the chat path an artifact that is missing or corrupt
\* counts as an empty dataset: the request does not fail because of it, and
\* its grounding context is the sentinel 'No relevant survey responses found.'
C12_ChatFailOpen ==
    (AnsweredValidMessage /\ ArtifactUnavailable /\ themesData = NullRef) =>
        /\ ~("cause" \in DOMAIN replied.response.body
               /\ replied.response.body.cause = "loadThemesData")
        /\ replied.context = sNoRelevant

\* The artifact holds a ThemesData that can be read
ArtifactLoads == fileState = "ok" /\ fileContent.kind = "json" /\ hasThemes(fileContent.value)

\* The reply comes from a request that ranked quotes in this step
RankedInThisStep ==
    /\ AnsweredValidMessage
    /\ \E k \in 1..Len(replied.calls) : replied.calls[k] = "findRelevantDocs"

\* C13 (as claimed): a POST that ranks quotes ranks the quotes of the
\* artifact as it is when the request is handled, so that a modification of
\* themes.json is visible to the next request without a restart.
C13_ChatSeesUpdates ==
    (RankedInThisStep /\ ArtifactLoads) =>
        LET fresh == findRelevantDocs(replied.body.message.str, fileContent.value, 5)
        IN  /\ fresh.threw => replied.docs = <<>>
            /\ ~fresh.threw => replied.docs = fresh.docs

\* C14: every relevance score is non-negative: the search score of every
\* quote of the drawn themes, and, in chat mode, the score of every quote,
\* the score of every label, and their sum with the label counted twice.
C14_ScoresNonNegative ==
    /\ rankOut.op = "search" =>
          /\ \A x \in QuoteSlots : searchScore(SlotQuote(x), rankQuery) >= 0
          /\ \A k \in 1..Len(rankOut.results) : rankOut.results[k].score >= 0
    /\ (rankOut.op = "chat" /\ ~rankOut.out.threw) =>
          /\ \A x \in QuoteSlots :
                /\ scoreDocument(SlotQuote(x), rankQuery) >= 0
                /\ scoreDocument(rankThemes[x[1]].label, rankQuery) >= 0
          /\ LET cands == ChatCandidates IN
             \A k \in 1..Len(cands) : cands[k].score >= 0
          /\ \A k \in 1..Len(rankOut.out.docs) : rankOut.out.docs[k].score >= 0

\* C14 witness: a chat ranking over quotes of which one scores 0 and another
\* scores above 0 through its label
C14_Witness ==
    /\ rankOut.op = "chat" /\ ~rankOut.out.threw
    /\ LET cands == ChatCandidates IN
       \E k \in 1..Len(cands) : cands[k].score = 0
    /\ \E x \in QuoteSlots :
          /\ scoreDocument(rankThemes[x[1]].label, rankQuery) > 0
          /\ scoreDocument(SlotQuote(x), rankQuery) = 0

\* String.prototype.toUpperCase: the uppercase of U+0131 is "I"
ToUpperChar(c) ==
    IF \E i \in DOMAIN LowerAlpha : LowerAlpha[i] = c
    THEN UpperAlpha[CHOOSE i \in DOMAIN LowerAlpha : LowerAlpha[i] = c]
    ELSE IF c = DotlessI THEN "I"
    ELSE c

toUpperCase(s) == [i \in 1..Len(s) |-> ToUpperChar(s[i])]

\* The chat score of text for query, or "throws"
chatScoreOrThrow(text, query) ==
    IF scoreDocumentThrows(text, query) THEN [threw |-> TRUE, score |-> 0]
    ELSE [threw |-> FALSE, score |-> scoreDocument(text, query)]

\* Both scorers give (t1, q1) what they give (t2, q2)
SameScores(t1, q1, t2, q2) ==
    /\ searchScore(t1, q1) = searchScore(t2, q2)
    /\ chatScoreOrThrow(t1, q1) = chatScoreOrThrow(t2, q2)

\* Uppercasing s loses nothing that lowercasing it keeps
CaseRoundTrips(s) == toLowerCase(toUpperCase(s)) = toLowerCase(s)

\* The harness has scored the drawn quotes against the drawn query
Scored == rankOut.op \in {"search", "chat"}

\* C15 (as claimed): for every text T and query Q, both scorers give
\* (T, Q), (lowercase(T), lowercase(Q)) and (uppercase(T), uppercase(Q))
\* the same score.
C15_CaseInsensitive ==
    Scored =>
        \A x \in QuoteSlots :
            /\ SameScores(SlotQuote(x), rankQuery,
                          toLowerCase(SlotQuote(x)), toLowerCase(rankQuery))
            /\ SameScores(SlotQuote(x), rankQuery,
                          toUpperCase(SlotQuote(x)), toUpperCase(rankQuery))

\* C15 (amended): for every T and Q both scorers give (T, Q) and
\* (lowercase(T), lowercase(Q)) the same score, and give (uppercase(T),
\* uppercase(Q)) that score too whenever lowercasing the uppercase of T and
\* of Q gives their lowercase (as for all ASCII text).
C15_CaseInsensitiveRoundTrip ==
    Scored =>
        \A x \in QuoteSlots :
            /\ SameScores(SlotQuote(x), rankQuery,
                          toLowerCase(SlotQuote(x)), toLowerCase(rankQuery))
            /\ (CaseRoundTrips(SlotQuote(x)) /\ CaseRoundTrips(rankQuery)) =>
                  SameScores(SlotQuote(x), rankQuery,
                             toUpperCase(SlotQuote(x)), toUpperCase(rankQuery))

\* C15 witness: a query with uppercase letters scored above 0 against a quote
\* that has the word in lowercase
C15_Witness ==
    /\ Scored
    /\ rankQuery # toLowerCase(rankQuery)
    /\ CaseRoundTrips(rankQuery)
    /\ \E x \in QuoteSlots :
          /\ SlotQuote(x) = toLowerCase(SlotQuote(x))
          /\ searchScore(SlotQuote(x), rankQuery) > 0
          /\ scoreDocument(SlotQuote(x), rankQuery) > 0

\* The label contains a word of the query (a term of more than 2 characters)
LabelMatches(label, query) ==
    \E k \in 1..Len(queryTerms(query)) :
        includes(toLowerCase(label), queryTerms(query)[k])

\* Position in the ranking docs of the candidate with this id, 0 if absent
RankIn(docs, id) ==
    IF \E k \in 1..Len(docs) : docs[k].id = id
    THEN CHOOSE k \in 1..Len(docs) : docs[k].id = id
    ELSE 0

\* For each chat candidate: its quote-vs-query score, whether its label
\* matches the query, its total and its position in the returned ranking
ChatTable ==
    LET cands == ChatCandidates IN
    [i \in 1..Len(cands) |->
        [text    |-> cands[i].text,
         quote   |-> scoreDocument(cands[i].text, rankQuery),
         matches |-> LabelMatches(cands[i].source, rankQuery),
         total   |-> cands[i].score,
         rank    |-> RankIn(rankOut.out.docs, cands[i].id)]]

\* Rows a and b have the same quote-vs-query score, the label of a matches
\* the query and the label of b does not
LabelDecides(a, b) == a.quote = b.quote /\ a.matches /\ ~b.matches

\* C16: in chat mode, of two quotes with the same quote-vs-query score, the
\* one under a theme whose label matches the query has the strictly higher
\* total, and if the other is returned it is returned too, and before it.
C16_LabelBoost ==
    (rankOut.op = "chat" /\ ~rankOut.out.threw) =>
        LET table == ChatTable IN
        \A i, j \in DOMAIN table :
            LabelDecides(table[i], table[j]) =>
                /\ table[i].total > table[j].total
                /\ table[j].rank # 0 =>
                      (table[i].rank # 0 /\ table[i].rank < table[j].rank)

\* C16 witness: the same quote text under a matching and under a
\* non-matching label, both returned, the matching one later in the artifact
C16_Witness ==
    /\ rankOut.op = "chat" /\ ~rankOut.out.threw
    /\ LET table == ChatTable IN
       \E i, j \in DOMAIN table :
          /\ LabelDecides(table[i], table[j])
          /\ table[i].text = table[j].text
          /\ table[i].quote > 0
          /\ table[i].rank # 0 /\ table[j].rank # 0
          /\ i > j

\* The block of the k-th selected quote, k counted from 1:
\* [Quote k] (Theme: <label>):
\* "<quote>"
NumberedBlock(doc, k) ==
    <<"[","Q","u","o","t","e"," ">> \o <<(<<"1","2","3","4","5","6">>)[k]>>
    \o <<"]"," ","(","T","h","e","m","e",":"," ">> \o doc.source
    \o <<")",":","\n","\"">> \o doc.text \o <<"\"">>

\* Where the k-th block starts in the context: after the blocks before it,
\* each followed by a blank line
RECURSIVE BlockStart(_, _)
BlockStart(docs, k) ==
    IF k = 1 THEN 1
    ELSE BlockStart(docs, k - 1) + Len(NumberedBlock(docs[k - 1], k - 1)) + 2

\* context is the blocks of docs, numbered 1..n in order, a blank line
\* between two blocks and nothing else
IsBlocksOf(context, docs) ==
    LET n == Len(docs)
        start == [k \in 1..n |-> BlockStart(docs, k)]
        block == [k \in 1..n |-> NumberedBlock(docs[k], k)]
    IN  /\ Len(context) = start[n] + Len(block[n]) - 1
        /\ \A k \in 1..n :
              SubSeq(context, start[k], start[k] + Len(block[k]) - 1) = block[k]
        /\ \A k \in 1..(n - 1) :
              SubSeq(context, start[k] + Len(block[k]), start[k + 1] - 1) = <<"\n", "\n">>

\* C17: buildContext returns the sentinel 'No relevant survey responses
\* found.' exactly when no quote was selected, never an empty string, and
\* otherwise the blocks of the selected quotes, numbered 1..n in ranking
\* order, each with its theme's label, separated by a blank line.
C17_ContextBlocks ==
    (rankOut.op = "chat" /\ ~rankOut.out.threw) =>
        /\ rankOut.context # <<>>
        /\ (rankOut.context = sNoRelevant) <=> (rankOut.out.docs = <<>>)
        /\ rankOut.out.docs # <<>> => IsBlocksOf(rankOut.context, rankOut.out.docs)

\* C17 witness: a context of five blocks from two themes
C17_Witness ==
    /\ rankOut.op = "chat" /\ ~rankOut.out.threw
    /\ Len(rankOut.out.docs) = 5
    /\ \E k \in 1..4 : rankOut.out.docs[k].source # rankOut.out.docs[k + 1].source
    /\ IsBlocksOf(rankOut.context, rankOut.out.docs)

\* What a source shows of a quote: the quote when it has at most 200
\* characters, else its first 200 characters and '...'
ShownText(text) ==
    IF Len(text) <= 200 THEN text
    ELSE SubSeq(text, 1, 200) \o <<".", ".", ".">>

\* The reply is a successful answer
Succeeded == replied.c # 0 /\ replied.response.status = 200

\* C18: the sources of a successful chat answer are, in order, one entry per
\* quote of the grounding context, with the quote's id, label, arrival time
\* and mode, and as text the quote when it has at most 200 characters, else
\* its first 200 characters followed by '...'.
C18_Sources ==
    Succeeded =>
        LET sources == replied.response.body.sources
            docs == replied.docs
        IN  /\ IF docs = <<>> THEN replied.context = sNoRelevant
               ELSE IsBlocksOf(replied.context, docs)
            /\ Len(sources) = Len(docs)
            /\ \A k \in 1..Len(docs) :
                  /\ DOMAIN sources[k] = {"id", "text", "source", "arrival_time", "mode"}
                  /\ sources[k].id = docs[k].id
                  /\ sources[k].source = docs[k].source
                  /\ sources[k].arrival_time = docs[k].arrival_time
                  /\ sources[k].mode = docs[k].mode
                  /\ sources[k].text = ShownText(docs[k].text)

\* C18 witness: a successful answer with five sources, one of a quote of 201
\* characters, cut, and one of a quote of 200 characters, whole
C18_Witness ==
    /\ Succeeded
    /\ Len(replied.docs) = 5
    /\ \E k \in 1..5 :
          /\ Len(replied.docs[k].text) = 201
          /\ Len(replied.response.body.sources[k].text) = 203
    /\ \E k \in 1..5 :
          /\ Len(replied.docs[k].text) = 200
          /\ replied.response.body.sources[k].text = replied.docs[k].text

\* Number of calls of the provider in a list of calls
ProviderCalls(calls) ==
    Cardinality({k \in 1..Len(calls) : calls[k] = "generateContent"})

\* The provider call of request c fails in this step
ProviderFails(c) == chat[c].pc = "generate" /\ replied'.c = c /\ replied'.response.status # 200

C19_StateInv ==
    /\ \A c \in Chats :
          /\ ProviderCalls(chat[c].calls) <= 1
          /\ chat[c].pc = "generate" <=> ProviderCalls(chat[c].calls) = 1
    /\ replied.c # 0 =>
          /\ ProviderCalls(replied.calls) <= 1
          /\ chat[replied.c].pc = "done"
          /\ IsGenericError(replied.response) => ProviderCalls(replied.calls) = 1

C19_StepInv ==
    \A c \in Chats :
        /\ ProviderFails(c) =>
              /\ IsGenericError(replied'.response)
              /\ "response" \notin DOMAIN replied'.response.body
              /\ chat'[c].pc = "done"
        /\ chat[c].pc = "generate" => chat'[c].pc \in {"generate", "done"}
        /\ chat[c].pc = "done" => chat'[c] = chat[c]

\* C19: within one chat request the provider is called at most once; a
\* failed call ends the request with an error answer in the same step, and a
\* request that has ended takes no further step, so the call is not retried.
C19_NoRetry == [](C19_StateInv) /\ [][C19_StepInv]_vars

\* C19 witness: a request answered with the provider error after one call
C19_Witness ==
    /\ replied.c # 0
    /\ IsGenericError(replied.response)
    /\ ProviderCalls(replied.calls) = 1
    /\ chat[replied.c].pc = "done"

\* C20 (as claimed): for every query and every theme collection the scorer
\* and the ranker return a result, in search mode and in chat mode; neither
\* raises.
C20_ScoringNeverFails ==
    /\ rankOut.op = "search" => "results" \in DOMAIN rankOut
    /\ rankOut.op = "chat" =>
          /\ ~rankOut.out.threw
          /\ \A x \in QuoteSlots :
                /\ ~scoreDocumentThrows(SlotQuote(x), rankQuery)
                /\ ~scoreDocumentThrows(rankThemes[x[1]].label, rankQuery)

FullMatch(text, query) == includes(toLowerCase(text), toLowerCase(query))

\* The positions of the query's terms of more than 2 characters that occur in
\* the lowercased text
TermsFound(text, query) ==
    LET terms == queryTerms(query)
    IN  {j \in 1..Len(terms) : includes(toLowerCase(text), terms[j])}

\* Occurrences as whole words, in the lowercased text, of the terms found
WordOccurrences(text, query) ==
    LET terms == queryTerms(query)
    IN  SumSeq([j \in 1..Len(terms) |->
                  IF j \in TermsFound(text, query)
                  THEN CountWordMatches(toLowerCase(text), terms[j], 1)
                  ELSE 0])

\* The scorer as the design describes it, in half units: 10 for the full
\* query, and for each term found 1 plus 0.5 per whole-word occurrence
RelevanceScorer(text, query) ==
    (IF FullMatch(text, query) THEN 20 ELSE 0)
    + 2 * Cardinality(TermsFound(text, query))
    + WordOccurrences(text, query)

TermsAndWords(text, query) ==
    2 * Cardinality(TermsFound(text, query)) + WordOccurrences(text, query)

FullMatchOnly(text, query) == IF FullMatch(text, query) THEN 20 ELSE 0

\* Every whitespace-delimited term of the lowercased query has at most 2
\* characters (the empty query has one term, the empty string)
OnlyShortTerms(query) ==
    LET terms == split(toLowerCase(query))
    IN  \A j \in 1..Len(terms) : Len(terms[j]) <= 2

\* The positions of the terms of more than 2 characters of the lowercased
\* query that occur in the lowercased text
LongTermsFound(text, query) ==
    LET terms == split(toLowerCase(query))
    IN  {j \in 1..Len(terms) : Len(terms[j]) > 2 /\ includes(toLowerCase(text), terms[j])}

StablePlace(cands, i) ==
    1 + Cardinality({j \in 1..Len(cands) :
                        \/ cands[j].score > cands[i].score
                        \/ cands[j].score = cands[i].score /\ j < i})

\* result is the first K elements of the stable descending order of cands
IsStableTopK(result, cands, K) ==
    /\ Len(result) = Min(K, Len(cands))
    /\ \A i \in 1..Len(cands) :
          StablePlace(cands, i) <= K => result[StablePlace(cands, i)] = cands[i]

\* C25: a returned ranking is the top-K of the stable descending order of its
\* candidates: candidates of equal score keep their input order (theme order,
\* then quote order), and of equal-score candidates at the cut the earlier
\* ones are returned.
C25_StableRanking ==
    /\ rankOut.op = "search" =>
          LET cands == SearchCandidates IN IsStableTopK(rankOut.results, cands, 20)
    /\ (rankOut.op = "chat" /\ ~rankOut.out.threw) =>
          LET cands == ChatCandidates IN IsStableTopK(rankOut.out.docs, cands, 5)

\* C25 witness: a chat ranking returned one of two different quotes of equal
\* score and cut the other, and returned two of equal score from two themes
C25_Witness ==
    /\ rankOut.op = "chat"
    /\ ~rankOut.out.threw
    /\ LET cands == ChatCandidates IN
          /\ \E i, j \in 1..Len(cands) :
                /\ i < j
                /\ cands[i].score = cands[j].score
                /\ cands[i].text # cands[j].text
                /\ StablePlace(cands, i) <= 5
                /\ StablePlace(cands, j) > 5
          /\ \E i, j \in 1..Len(cands) :
                /\ cands[i].score = cands[j].score
                /\ cands[i].source # cands[j].source
                /\ StablePlace(cands, i) < StablePlace(cands, j)
                /\ StablePlace(cands, j) <= 5

\* C26: in a search, every quote that contains the whole lowercased query
\* scores 10 plus the number of terms of more than 2 characters, every quote
\* that does not scores at most that number, and in the result no quote
\* without the whole query stands before one with it.
C26_FullMatchFirst ==
    rankOut.op = "search" =>
        LET n == Len(queryTerms(rankQuery)) IN
        /\ \A x \in QuoteSlots :
              IF FullMatch(SlotQuote(x), rankQuery)
              THEN searchScore(SlotQuote(x), rankQuery) = 20 + 2 * n
              ELSE searchScore(SlotQuote(x), rankQuery) <= 2 * n
        /\ \A x, y \in QuoteSlots :
              (FullMatch(SlotQuote(x), rankQuery) /\ ~FullMatch(SlotQuote(y), rankQuery)) =>
                  searchScore(SlotQuote(x), rankQuery) > searchScore(SlotQuote(y), rankQuery)
        /\ \A k, l \in 1..Len(rankOut.results) :
              (FullMatch(rankOut.results[l].quote, rankQuery)
               /\ ~FullMatch(rankOut.results[k].quote, rankQuery)) => l < k

\* C26 witness: a search returned a quote with the whole query and, after
\* it, a quote without the whole query that has every term of the query
C26_Witness ==
    /\ rankOut.op = "search"
    /\ queryTerms(rankQuery) # <<>>
    /\ \E k, l \in 1..Len(rankOut.results) :
          /\ k < l
          /\ FullMatch(rankOut.results[k].quote, rankQuery)
          /\ ~FullMatch(rankOut.results[l].quote, rankQuery)
          /\ Cardinality(TermsFound(rankOut.results[l].quote, rankQuery))
                = Len(queryTerms(rankQuery))

\* The load of request r fails in this step: statSync raises on the missing
\* file, or the read failed, or what was read does not parse
FailsInThisStep(r) ==
    /\ req'[r].pc = "loaded"
    /\ \/ req[r].pc = "import" /\ fileState = "missing"
       \/ req[r].pc = "readDone" /\ ~ReadParsable(r)

\* The stat of request r finds, in this step, the file present with the
\* recorded mtime while a snapshot is cached
StatsRecordedMtime(r) ==
    /\ req[r].pc = "import" /\ req'[r].pc # "import"
    /\ fileState # "missing"
    /\ cachedThemes # NullRef
    /\ fileMtime = themesLastModified

\* The cache never holds the empty dataset of the catch block
C27_StateInv ==
    cachedThemes # NullRef =>
        /\ cachedThemes.id[2] = "parsed"
        /\ cachedThemes.data # MockData

C27_StepInv ==
    \A r \in Reqs :
        /\ FailsInThisStep(r) =>
              /\ cachedThemes' = cachedThemes
              /\ themesLastModified' = themesLastModified
              /\ ~req'[r].loaded.raised
              /\ req'[r].loaded.data = Object(r, "mock", MockData)
              /\ req'[r].loaded.data # cachedThemes
        /\ StatsRecordedMtime(r) =>
              /\ req'[r].loaded = Returned(cachedThemes)
              /\ cachedThemes' = cachedThemes

\* C27: a load that fails (file missing, unreadable or unparsable) leaves
\* cachedThemes and themesLastModified as they were and returns a new empty
\* dataset, not the cached snapshot; the cache never holds the empty dataset;
\* a load that finds the file present at the recorded mtime returns the
\* cached snapshot.
C27_FailedReloadKeepsCache == [](C27_StateInv) /\ [][C27_StepInv]_vars

\* C27 witness: a request saw a cached snapshot under another mtime than the
\* file's, its reload failed and it holds the empty dataset, while the cache
\* still holds that snapshot under its mtime
C27_Witness ==
    \E r \in Reqs :
        /\ req[r].pc = "loaded"
        /\ req[r].seen.cache # NullRef
        /\ ~req[r].hit
        /\ req[r].loaded.data = Object(r, "mock", MockData)
        /\ cachedThemes = req[r].seen.cache
        /\ themesLastModified = req[r].seen.lastModified
        /\ hasThemes(cachedThemes.data)

\* The cache holds a snapshot under the mtime the file has now
CacheIsCurrent == cachedThemes # NullRef /\ themesLastModified = fileMtime

\* Request r has returned from a load that did not fail and that statted the
\* mtime the file has now
LoadedAtCurrentMtime(r) ==
    /\ req[r].pc = "loaded"
    /\ Statted(r)
    /\ req[r].mtime = fileMtime
    /\ ~LoadFailed(r)

C28_StateInv ==
    /\ CacheIsCurrent =>
          /\ fileContent.kind = "json"
          /\ cachedThemes.data = fileContent.value
    /\ \A r \in Reqs :
          LoadedAtCurrentMtime(r) =>
             /\ fileContent.kind = "json"
             /\ req[r].loaded.data.data = fileContent.value

\* A load stats before it reads: until the request is answered the statted
\* mtime is set on leaving "import" and kept, and the buffer is filled after
\* it, by the read alone
C28_StepInv ==
    \A r \in Reqs :
        /\ (req'[r].mtime # req[r].mtime /\ req'[r].pc # "done") => req[r].pc = "import"
        /\ (req'[r].buf # req[r].buf /\ req'[r].pc # "done") =>
              /\ req[r].pc = "reading"
              /\ Statted(r)
              /\ req'[r].mtime = req[r].mtime
        /\ Reloads(r) => themesLastModified' = req[r].mtime

\* C28: with updates that each change the mtime, the cache never holds a
\* stale snapshot under the file's current mtime: a load stats before it
\* reads, whenever the recorded mtime is the file's current mtime the cached
\* content is the file's current content, and a load that statted the current
\* mtime and did not fail returned the current content.
C28_NoStalePin == [](C28_StateInv) /\ [][C28_StepInv]_vars

\* C28 witness: a load that statted before an update completed after a load
\* that statted after it; the cache holds the older content under the older
\* mtime, and the other request holds the file's current content
C28_Witness ==
    \E r, q \in Reqs :
        /\ req[r].pc = "loaded" /\ ReadParsable(r)
        /\ cachedThemes = req[r].loaded.data
        /\ themesLastModified < fileMtime
        /\ fileContent.kind = "json"
        /\ cachedThemes.data # fileContent.value
        /\ LoadedAtCurrentMtime(q)
        /\ req[q].loaded.data.data = fileContent.value

\* The sendMessage calls that wait for the fetch or for the body
InFlight == {k \in Submits : client.calls[k].pc \in {"fetch", "json"}}
InFlightNext == {k \in Submits : client'.calls[k].pc \in {"fetch", "json"}}

\* A submit event is handled in this step
SubmitsNow == client'.submits = client.submits + 1

\* The input is blank or a request is in flight
SubmitIsRefused == trim(client.input) = <<>> \/ client.isLoading

\* Call k ends in this step
EndsNow(k) == k \in InFlight /\ client'.calls[k].pc = "done"

\* The message list grows by one message of this role in this step
Appends(role) ==
    /\ Len(client'.messages) = Len(client.messages) + 1
    /\ SubSeq(client'.messages, 1, Len(client.messages)) = client.messages
    /\ client'.messages[Len(client'.messages)].role = role

C29_StateInv ==
    /\ Cardinality(InFlight) <= 1
    /\ client.isLoading <=> InFlight # {}

C29_StepInv ==
    /\ (SubmitsNow /\ SubmitIsRefused) =>
          /\ client'.messages = client.messages
          /\ client'.input = client.input
          /\ client'.isLoading = client.isLoading
          /\ client'.error = client.error
          /\ InFlightNext = InFlight
    /\ (SubmitsNow /\ ~SubmitIsRefused) =>
          /\ InFlight = {}
          /\ InFlightNext = {client'.submits}
          /\ Appends("user")
          /\ client'.isLoading
    /\ \A k \in Submits :
          EndsNow(k) =>
             /\ ~client'.isLoading
             /\ \/ /\ client.calls[k].pc = "json"
                   /\ Appends("assistant")
                   /\ client'.error = client.error
                \/ /\ client'.messages = client.messages
                   /\ client'.error = FailedBanner
    /\ Appends("assistant") => \E k \in Submits : EndsNow(k) /\ client.calls[k].pc = "json"
    /\ client'.messages # client.messages => (Appends("assistant") \/ Appends("user"))

\* Every request that was started ends, and isLoading goes back to false
C29_Ends ==
    /\ \A k \in Submits : (client.calls[k].pc = "fetch") ~> (client.calls[k].pc = "done")
    /\ client.isLoading ~> ~client.isLoading

\* C29: in the chat client at most one request is in flight, and isLoading
\* holds exactly while one is; a submit with blank input or while isLoading
\* changes nothing; a request that ends sets isLoading to false and either
\* appends one assistant message (only after an ok response whose body was
\* read) or sets the error banner and appends nothing; every started request
\* ends.
C29_OneRequestInFlight == [](C29_StateInv) /\ [][C29_StepInv]_vars /\ C29_Ends

\* C29 witness: one request was answered, one submit was refused and one
\* request failed: the list has the answer, the banner is set, nothing is
\* loading
C29_Witness ==
    /\ ~client.isLoading
    /\ client.error = FailedBanner
    /\ \E k \in Submits : client.calls[k].pc = "returned"
    /\ Cardinality({k \in Submits : client.calls[k].pc = "done"}) = 2
    /\ Len(client.messages) = 4
    /\ client.messages[3].role = "assistant"
    /\ client.messages[4].role = "user"

\* The theme has a quotes field
HasQuotes(t) == "quotes" \in DOMAIN t

\* C30 (as claimed): every theme the evidence page hands to ThemeExplorer has
\* a quotes sequence, whatever the answers to the listing request and to the
\* detail requests were.
C30_ThemesHaveQuotes ==
    \A i \in 1..Len(page.themes) : HasQuotes(page.themes[i])

====
